---- MODULE Spec2Model ----
(***************************************************************************)
(* Model of the video-generation pipeline of ai-vibes-vid-gen: the HTTP    *)
(* submit endpoint, the Bull queue boundary (attempts / backoff), the job  *)
(* handler handleVideoGeneration and the four stage services it awaits     *)
(* (ScriptService, MediaService, EditorService, PublisherService).         *)
(*                                                                         *)
(* Every await of the code is one step of the model.  An external call     *)
(* (HTTP request or spawned subprocess) is issued in one step, with the    *)
(* answer the outside world will give (a success variant, a failure, or no *)
(* answer at all), and consumed by the step that follows the await.  A     *)
(* call that gets no answer completes only if the code gave it a timeout.  *)
(***************************************************************************)
EXTENDS Integers, Sequences, FiniteSets, TLC

(***************************************************************************)
(* Program constants.                                                      *)
(***************************************************************************)
Attempts == 3
BackoffDelay == 5000
maxAttempts == 40

(***************************************************************************)
(* Bounds of the model.                                                    *)
(***************************************************************************)
MaxDuration == 3
MaxPromptLen == 3
MaxPathLen == 3
MaxMillis == 1100
MaxCues == 2
MaxTagsLen == 3
MaxRandomLen == 2
MaxFiles == 2

VARIABLES
  cfg,            \* configuration read by the service constructors
  qstate,         \* Bull state of the job
  data,           \* job.data
  attemptsMade,   \* job.attemptsMade
  progress,       \* job.progress(), as a status query sees it
  returnvalue,    \* job.returnvalue
  failedReason,   \* job.failedReason
  backoffDelay,   \* delay of the current backoff, in ms
  pc,             \* position of the handler
  call,           \* the external call the handler is awaiting
  thrown,         \* the error a stage call rejected with
  scriptData,     \* local of handleVideoGeneration
  debugScript,    \* what this generateScript call saved as <jobId>_script.json
  audioPath,      \* local of generateMedia
  videoPaths,     \* local of generateVideos
  cue,            \* position of the for-loop of generateVideos (1-based)
  inCatch,        \* generateVideos is in its catch block
  polls,          \* `attempts' of the Stable Horde polling loop
  mediaFiles,     \* local of handleVideoGeneration
  audioDuration,  \* local of loopVideoToMatchAudio
  videoDuration,  \* local of loopVideoToMatchAudio
  loopCount,      \* local of loopVideo
  loopedVideoPath,\* local of assembleVideo
  reconciledDuration, \* duration of the video at loopedVideoPath, 0: unknown
  finalVideoPath, \* local of handleVideoGeneration
  uploadUrls,     \* local of handleVideoGeneration / uploadToSocial
  platformResult, \* how each platform's upload ended in uploadToSocial
  progressLog,    \* values passed to job.progress in this attempt
  stageLog,       \* stage calls and completions of this attempt
  executions,     \* number of handler executions of the job
  eval,           \* a function of the services applied to one input
  tempDir         \* files of the job that the tools wrote to the temp dir

vars == <<cfg, eval, tempDir, qstate, data, attemptsMade, progress, returnvalue, failedReason, backoffDelay, pc, call, thrown, scriptData, debugScript,
          audioPath, videoPaths, cue, inCatch, polls, mediaFiles,
          audioDuration, videoDuration, loopCount, loopedVideoPath,
          reconciledDuration, finalVideoPath, uploadUrls, platformResult, progressLog, stageLog,
          executions>>

queueVars == <<qstate, attemptsMade, returnvalue, failedReason, backoffDelay,
               executions>>
mediaVars == <<audioPath, videoPaths, cue, inCatch, polls, mediaFiles>>
editorVars == <<audioDuration, videoDuration, loopCount, loopedVideoPath,
                reconciledDuration, finalVideoPath>>

None == "none"
NoCall == [kind |-> "none", answer |-> "never"]
NoEval == [fn |-> "none", arg |-> <<>>, applied |-> FALSE, ret |-> <<>>]
NoMedia == [audioPath |-> None, videoPaths |-> <<>>, subtitlePath |-> None]
EmptyUrls == [platform \in {} |-> ""]
NoUpload == [youtube |-> "none", tiktok |-> "none"]
publishVars == <<uploadUrls, platformResult>>

(***************************************************************************)
(* An optional boolean of the request body: true, false or absent.         *)
(***************************************************************************)
Flag == {"true", "false", "undefined"}
Truthy(f) == f = "true"

(***************************************************************************)
(* External calls.  Timeout(kind) is the timeout the code passes with the  *)
(* call, in ms; 0 means the code passes none.                              *)
(***************************************************************************)
Timeout(kind) ==
  CASE kind = "hf-post"        -> 120000
    [] kind = "horde-submit"   -> 15000
    [] kind = "horde-check"    -> 10000
    [] kind = "horde-status"   -> 10000
    [] kind = "horde-download" -> 30000
    [] OTHER                   -> 0

(***************************************************************************)
(* What the outside world can answer to a call, when it answers.           *)
(***************************************************************************)
Responses(kind) ==
  CASE kind = "gemini"        -> {"valid", "same-index", "empty", "number",
                                  "number-only", "null", "garbage", "fail"}
    [] kind = "horde-check"   -> {"done", "faulted", "pending", "fail"}
    [] kind = "horde-status"  -> {"ok", "nourl", "fail"}
    [] kind = "replicate-run" -> {"ok", "empty", "fail"}
    [] OTHER                  -> {"ok", "fail"}

Durations == 1..MaxDuration

(***************************************************************************)
(* Files of the temp directory.  Paths are named by their file name        *)
(* without the `<jobId>_' prefix; the clip of a visual prompt is named by  *)
(* the prompt's index field.  tempDir holds the audio file and the clips   *)
(* that the tools spawned by MediaService (edge-tts, ffmpeg) wrote;        *)
(* nothing deletes them, so they are still there when the job is retried.  *)
(* The files written with writeFileSync (subtitles, downloaded images,     *)
(* concat list) and by fluent-ffmpeg, which passes -y with every output    *)
(* file, are always overwritten and are not recorded.  An entry of tempDir *)
(* is a tuple: the file's name, or the name and the index of a clip.       *)
(***************************************************************************)
AudioFile == "audio.mp3"
ClipFile(index) == <<"clip", index>>
ConcatenatedFile == "concatenated.mp4"
TrimmedFile == "trimmed.mp4"
LoopedFile == "looped.mp4"
OutputFile == "output.mp4"

(***************************************************************************)
(* The output file of a tool run, and whether the command line lets the    *)
(* tool overwrite it: edge-tts opens its output file for writing and       *)
(* convertImageToVideo passes -y; createSilentAudio and                    *)
(* createPlaceholderVideo pass no -y.                                      *)
(***************************************************************************)
Target(kind) ==
  CASE kind \in {"edge-tts", "ffmpeg-silent"} -> <<AudioFile>>
    [] kind \in {"ffmpeg-placeholder", "ffmpeg-convert"} ->
         ClipFile(scriptData.visual_prompts[cue].index)
    [] OTHER -> <<>>

Overwrites(kind) == kind \notin {"ffmpeg-silent", "ffmpeg-placeholder"}

(***************************************************************************)
(* What the awaiting code can observe: a call that is not answered rejects *)
(* when its timeout expires, and stays pending when it has none.  ffmpeg   *)
(* without -y does not overwrite an existing output file: it asks on its   *)
(* standard input, which the code never writes to, and either exits with   *)
(* a non-zero code or keeps waiting.                                       *)
(***************************************************************************)
Outcomes(c) ==
  IF c.answer = "never"
  THEN IF Timeout(c.kind) > 0 THEN {"fail"} ELSE {}
  ELSE IF ~Overwrites(c.kind) /\ Target(c.kind) \in tempDir THEN {"fail"}
  ELSE {c.answer}

Written ==
  tempDir' = IF Outcomes(call) = {"ok"} THEN tempDir \cup {Target(call.kind)}
             ELSE tempDir

Answered(kind) == call.kind = kind /\ Outcomes(call) # {}

Goto(p) == pc' = p /\ call' = NoCall

IssueCall(kind, p) ==
  /\ pc' = p
  /\ \E a \in Responses(kind) \cup {"never"} :
       call' = [kind |-> kind, answer |-> a]

Log(events) == stageLog' = stageLog \o events

(***************************************************************************)
(* A stage call rejects with error e: the handler's try block is left.     *)
(***************************************************************************)
StageThrows(stage, e) ==
  /\ Goto("catch")
  /\ thrown' = e
  /\ Log(<< <<"throw", stage>> >>)

(***************************************************************************)
(* JSON values as the code tests them: a string, a number or undefined     *)
(* (a missing field).                                                      *)
(***************************************************************************)
Str(text) == [type |-> "string", text |-> text]
Undefined == [type |-> "undefined", text |-> <<>>]
Number42 == [type |-> "number", text |-> <<"42">>]
Falsy(v) == v.type = "undefined" \/ (v.type = "string" /\ v.text = <<>>)

NoScript == [script |-> Undefined, visual_prompts |-> <<>>,
             timestamps |-> <<>>]

(***************************************************************************)
(* Prompts: the dto requires a non-empty string.                           *)
(***************************************************************************)
Chars == {"a", "'", ":", "\\"}
Texts(n) == UNION {[1..k -> Chars] : k \in 1..n}
Prompts == Texts(MaxPromptLen)
JobPrompts == {<<"a">>}

(***************************************************************************)
(* Constructors.                                                           *)
(***************************************************************************)
ImageProvider(useFreeAI, replicateApiKey, hfApiKey) ==
  IF useFreeAI THEN "stablehorde"
  ELSE IF replicateApiKey THEN "replicate"
  ELSE IF hfApiKey THEN "huggingface"
  ELSE "none"

NoJob ==
  /\ tempDir = {}
  /\ qstate = None
  /\ data = [prompt |-> <<>>, uploadToYoutube |-> "undefined",
             uploadToTiktok |-> "undefined"]
  /\ attemptsMade = 0
  /\ progress = 0
  /\ returnvalue = None
  /\ failedReason = None
  /\ backoffDelay = 0
  /\ pc = "idle"
  /\ call = NoCall
  /\ thrown = None
  /\ scriptData = NoScript
  /\ debugScript = NoScript
  /\ audioPath = None
  /\ videoPaths = <<>>
  /\ cue = 0
  /\ inCatch = FALSE
  /\ polls = 0
  /\ mediaFiles = NoMedia
  /\ audioDuration = 0
  /\ videoDuration = 0
  /\ loopCount = 0
  /\ loopedVideoPath = None
  /\ reconciledDuration = 0
  /\ finalVideoPath = None
  /\ uploadUrls = EmptyUrls
  /\ platformResult = NoUpload
  /\ progressLog = <<>>
  /\ stageLog = <<>>
  /\ executions = 0

Init ==
  /\ cfg \in [genAI : BOOLEAN,
              imageProvider : {ImageProvider(a, b, c) : a, b, c \in BOOLEAN}]
  /\ eval = NoEval
  /\ NoJob

(***************************************************************************)
(* POST /video/generate: the job is added to the queue with attempts 3 and *)
(* exponential backoff.                                                    *)
(***************************************************************************)
generateVideo ==
  /\ qstate = None
  /\ \E prompt \in JobPrompts, y \in Flag, t \in Flag :
       data' = [prompt |-> prompt, uploadToYoutube |-> y,
                uploadToTiktok |-> t]
  /\ qstate' = "waiting"
  /\ UNCHANGED <<cfg, eval, tempDir, attemptsMade, progress, returnvalue, failedReason,
                 backoffDelay, pc, call, thrown, scriptData, debugScript, mediaVars,
                 editorVars, publishVars, progressLog, stageLog, executions>>

(***************************************************************************)
(* GET /video/status/:jobId.  The queue holds at most the one job of the   *)
(* model, under the queue job id 1.  The query changes nothing.            *)
(***************************************************************************)
QueueJobId == "1"
QueueJobIds == {"1", "2"}

getJobStatus_AnyId(queueJobId) == IF qstate = None THEN [error |-> "Job not found"] ELSE [jobId |-> queueJobId, state |-> qstate, progress |-> progress, result |-> returnvalue]

getJobStatus(queueJobId) ==
  IF queueJobId # QueueJobId \/ qstate = None
  THEN [error |-> "Job not found"]
  ELSE [jobId |-> queueJobId, state |-> qstate, progress |-> progress,
        result |-> returnvalue]

(***************************************************************************)
(* The queue boundary (Bull): a waiting job is handed to the handler; a    *)
(* rejected attempt is retried after a backoff while attemptsMade is below *)
(* the attempts option, and fails terminally otherwise.  failedReason is   *)
(* the error of the attempt that failed last, kept while no attempt runs:  *)
(* the handler cannot read it and the status query does not return it.     *)
(***************************************************************************)
RECURSIVE Pow2(_)
Pow2(n) == IF n = 0 THEN 1 ELSE 2 * Pow2(n - 1)

Backoff(made) == BackoffDelay * Pow2(made - 1)

ProcessJob_KeepsScript ==
  /\ qstate = "waiting"
  /\ qstate' = "active"
  /\ executions' = executions + 1
  /\ pc' = "start"
  /\ call' = NoCall
  /\ thrown' = None
  /\ scriptData' = scriptData
  /\ debugScript' = NoScript
  /\ audioPath' = None
  /\ videoPaths' = <<>>
  /\ cue' = 0
  /\ inCatch' = FALSE
  /\ polls' = 0
  /\ mediaFiles' = NoMedia
  /\ audioDuration' = 0
  /\ videoDuration' = 0
  /\ loopCount' = 0
  /\ loopedVideoPath' = None
  /\ reconciledDuration' = 0
  /\ finalVideoPath' = None
  /\ uploadUrls' = EmptyUrls
  /\ platformResult' = NoUpload
  /\ progressLog' = <<>>
  /\ stageLog' = <<>>
  /\ failedReason' = None
  /\ UNCHANGED <<cfg, eval, tempDir, data, attemptsMade, progress, returnvalue,
                 backoffDelay>>

ProcessJob ==
  /\ qstate = "waiting"
  /\ qstate' = "active"
  /\ executions' = executions + 1
  /\ pc' = "start"
  /\ call' = NoCall
  /\ thrown' = None
  /\ scriptData' = NoScript
  /\ debugScript' = NoScript
  /\ audioPath' = None
  /\ videoPaths' = <<>>
  /\ cue' = 0
  /\ inCatch' = FALSE
  /\ polls' = 0
  /\ mediaFiles' = NoMedia
  /\ audioDuration' = 0
  /\ videoDuration' = 0
  /\ loopCount' = 0
  /\ loopedVideoPath' = None
  /\ reconciledDuration' = 0
  /\ finalVideoPath' = None
  /\ uploadUrls' = EmptyUrls
  /\ platformResult' = NoUpload
  /\ progressLog' = <<>>
  /\ stageLog' = <<>>
  /\ failedReason' = None
  /\ UNCHANGED <<cfg, eval, tempDir, data, attemptsMade, progress, returnvalue,
                 backoffDelay>>

BackoffElapsed ==
  /\ qstate = "delayed"
  /\ qstate' = "waiting"
  /\ UNCHANGED <<cfg, eval, tempDir, data, attemptsMade, progress, returnvalue,
                 failedReason, backoffDelay, pc, call, thrown, scriptData, debugScript,
                 mediaVars, editorVars, publishVars, progressLog, stageLog,
                 executions>>

(***************************************************************************)
(* handleVideoGeneration: job.progress(n).                                 *)
(***************************************************************************)
Report(at, n, next) ==
  /\ qstate = "active"
  /\ pc = at
  /\ progress' = n
  /\ progressLog' = Append(progressLog, n)
  /\ Goto(next)
  /\ UNCHANGED <<cfg, eval, tempDir, data, queueVars, thrown, scriptData, debugScript, mediaVars,
                 editorVars, publishVars, stageLog>>

Progress10 == Report("start", 10, "script")
Progress25 == Report("p25", 25, "media")
Progress50 == Report("p50", 50, "assemble")
Progress75_Skips90 ==
  Report("p75", 75,
         IF Truthy(data.uploadToYoutube) \/ Truthy(data.uploadToTiktok)
         THEN "publish" ELSE "p100")

Progress75_BothFlags ==
  Report("p75", 75,
         IF Truthy(data.uploadToYoutube) /\ Truthy(data.uploadToTiktok)
         THEN "publish" ELSE "p90")

Progress75 ==
  Report("p75", 75,
         IF Truthy(data.uploadToYoutube) \/ Truthy(data.uploadToTiktok)
         THEN "publish" ELSE "p90")
Progress90 == Report("p90", 90, "p100")
Progress100 == Report("p100", 100, "return")

(***************************************************************************)
(* handleVideoGeneration: the result is returned / the catch block         *)
(* rethrows the error, and the queue records the outcome of the attempt.   *)
(***************************************************************************)
Result ==
  [success |-> TRUE, finalVideoPath |-> finalVideoPath,
   uploadUrls |-> uploadUrls, scriptData |-> scriptData]

HandlerReturns ==
  /\ qstate = "active"
  /\ pc = "return"
  /\ returnvalue' = Result
  /\ qstate' = "completed"
  /\ Goto("idle")
  /\ UNCHANGED <<cfg, eval, tempDir, data, attemptsMade, progress, failedReason,
                 backoffDelay, thrown, scriptData, debugScript, mediaVars, editorVars,
                 publishVars, progressLog, stageLog, executions>>

Rethrown_Wrapped(e) == "Error in video generation"

Rethrown(e) == e

HandlerRejects_OneMoreAttempt ==
  /\ qstate = "active"
  /\ pc = "catch"
  /\ failedReason' = Rethrown(thrown)
  /\ attemptsMade' = attemptsMade + 1
  /\ IF attemptsMade' <= Attempts
     THEN qstate' = "delayed" /\ backoffDelay' = Backoff(attemptsMade')
     ELSE qstate' = "failed" /\ backoffDelay' = backoffDelay
  /\ Goto("idle")
  /\ UNCHANGED <<cfg, eval, tempDir, data, progress, returnvalue, thrown, scriptData, debugScript,
                 mediaVars, editorVars, publishVars, progressLog, stageLog,
                 executions>>

HandlerRejects ==
  /\ qstate = "active"
  /\ pc = "catch"
  /\ failedReason' = Rethrown(thrown)
  /\ attemptsMade' = attemptsMade + 1
  /\ IF attemptsMade' < Attempts
     THEN qstate' = "delayed" /\ backoffDelay' = Backoff(attemptsMade')
     ELSE qstate' = "failed" /\ backoffDelay' = backoffDelay
  /\ Goto("idle")
  /\ UNCHANGED <<cfg, eval, tempDir, data, progress, returnvalue, thrown, scriptData, debugScript,
                 mediaVars, editorVars, publishVars, progressLog, stageLog,
                 executions>>

(***************************************************************************)
(* ScriptService.  A text is a sequence of tokens: a literal piece of a    *)
(* template is one token and a prompt is a sequence of characters.  The    *)
(* script field of a parsed response is a JSON value of any type.          *)
(***************************************************************************)
createFallbackScript_GenericNarration(prompt) ==
  [script |-> Str(<<"Generated video content.">>),
   visual_prompts |->
     << [index |-> 0, prompt |-> <<"Cinematic scene showing ">> \o prompt,
         duration |-> 10],
        [index |-> 1, prompt |-> <<"Close-up details of ">> \o prompt,
         duration |-> 10],
        [index |-> 2, prompt |-> <<"Wide angle view of ">> \o prompt,
         duration |-> 10] >>,
   timestamps |->
     << [start |-> 0, end |-> 10,
         text |-> <<"This is a video about ">> \o prompt \o <<".">>],
        [start |-> 10, end |-> 20,
         text |-> <<"We'll explore this fascinating topic">>],
        [start |-> 20, end |-> 30, text |-> <<"in detail.">>] >>]

createFallbackScript(prompt) ==
  [script |->
     Str(<<"This is a video about ">> \o prompt
         \o <<". We'll explore this fascinating topic in detail.">>),
   visual_prompts |->
     << [index |-> 0, prompt |-> <<"Cinematic scene showing ">> \o prompt,
         duration |-> 10],
        [index |-> 1, prompt |-> <<"Close-up details of ">> \o prompt,
         duration |-> 10],
        [index |-> 2, prompt |-> <<"Wide angle view of ">> \o prompt,
         duration |-> 10] >>,
   timestamps |->
     << [start |-> 0, end |-> 10,
         text |-> <<"This is a video about ">> \o prompt \o <<".">>],
        [start |-> 10, end |-> 20,
         text |-> <<"We'll explore this fascinating topic">>],
        [start |-> 20, end |-> 30, text |-> <<"in detail.">>] >>]

(***************************************************************************)
(* JSON.parse of the response text, for the texts that are JSON objects:   *)
(* a well-formed script, the same script with index 0 in both of its       *)
(* visual prompts, `{}', a script whose narration is the number 42, and    *)
(* `{"script": 42}'.  A field that is missing, not an array or an empty    *)
(* array is the empty sequence: validateScriptData treats the three alike. *)
(***************************************************************************)
ParsedJson(response) ==
  LET cues == << [index |-> 0, prompt |-> <<"scene 0">>, duration |-> 5],
                 [index |-> 1, prompt |-> <<"scene 1">>, duration |-> 5] >>
      subs == << [start |-> 0, end |-> 5, text |-> <<"line 0">>],
                 [start |-> 5, end |-> 10, text |-> <<"line 1">>] >> IN
  CASE response = "valid" ->
         [script |-> Str(<<"narration">>), visual_prompts |-> cues,
          timestamps |-> subs]
    [] response = "same-index" ->
         [script |-> Str(<<"narration">>),
          visual_prompts |-> [k \in 1..Len(cues) |->
                                [cues[k] EXCEPT !.index = 0]],
          timestamps |-> subs]
    [] response = "number" ->
         [script |-> Number42, visual_prompts |-> cues, timestamps |-> subs]
    [] response = "number-only" ->
         [script |-> Number42, visual_prompts |-> <<>>, timestamps |-> <<>>]
    [] OTHER -> NoScript

Substring(text, from, to) ==
  SubSeq(text, from + 1, IF to < Len(text) THEN to ELSE Len(text))

(***************************************************************************)
(* validateScriptData throws a TypeError when it reads a property of null  *)
(* (the caller handles that response) or calls substring on a narration    *)
(* that is not a string.                                                   *)
(***************************************************************************)
validateScriptDataThrows(d) ==
  /\ ~Falsy(d.script)
  /\ d.script.type # "string"
  /\ Len(d.timestamps) = 0

validateScriptData(d) ==
  LET script == IF Falsy(d.script)
                THEN Str(<<"Generated video content.">>) ELSE d.script IN
  [script |-> script,
   visual_prompts |->
     IF Len(d.visual_prompts) = 0
     THEN << [index |-> 0, prompt |-> <<"Cinematic video scene">>,
              duration |-> 10] >>
     ELSE d.visual_prompts,
   timestamps |->
     IF Len(d.timestamps) = 0
     THEN << [start |-> 0, end |-> 10,
              text |-> Substring(script.text, 0, 100)] >>
     ELSE d.timestamps]

ScriptReturns(sd, saved) ==
  /\ scriptData' = sd
  /\ debugScript' = saved
  /\ thrown' = thrown
  /\ Goto("p25")
  /\ Log(<< <<"ret", "script">> >>)

CallGenerateScript_NotAwaited ==
  /\ qstate = "active"
  /\ pc = "script"
  /\ IssueCall("gemini", "p25")
  /\ Log(<< <<"call", "script">> >>)
  /\ UNCHANGED <<cfg, eval, tempDir, data, queueVars, progress, scriptData, debugScript, thrown,
                 mediaVars, editorVars, publishVars, progressLog>>

(***************************************************************************)
(* generateScript up to its first await.  Without a Gemini key the         *)
(* fallback script is saved and returned at once; saveToDebug is outside   *)
(* any try block there, so an error of the write leaves generateScript.    *)
(***************************************************************************)
CallGenerateScript ==
  /\ qstate = "active"
  /\ pc = "script"
  /\ IF ~cfg.genAI
     THEN \E fsOk \in BOOLEAN :
            IF fsOk
            THEN /\ scriptData' = createFallbackScript(data.prompt)
                 /\ debugScript' = createFallbackScript(data.prompt)
                 /\ thrown' = thrown
                 /\ Goto("p25")
                 /\ Log(<< <<"call", "script">>, <<"ret", "script">> >>)
            ELSE /\ UNCHANGED <<scriptData, debugScript>>
                 /\ thrown' = "saveToDebug failed"
                 /\ Goto("catch")
                 /\ Log(<< <<"call", "script">>, <<"throw", "script">> >>)
     ELSE /\ IssueCall("gemini", "script_await")
          /\ Log(<< <<"call", "script">> >>)
          /\ UNCHANGED <<scriptData, debugScript, thrown>>
  /\ UNCHANGED <<cfg, eval, tempDir, data, queueVars, progress, mediaVars, editorVars,
                 publishVars, progressLog>>

GenerateScriptResumes_FallbackByReason ==
  /\ qstate = "active"
  /\ pc = "script_await"
  /\ Answered("gemini")
  /\ \E r \in Outcomes(call) :
       LET fallback == createFallbackScript(data.prompt)
           parsed == IF r = "garbage" THEN fallback ELSE ParsedJson(r) IN
       IF r \in {"fail", "null"} \/ validateScriptDataThrows(parsed)
       THEN ScriptReturns(createFallbackScript_GenericNarration(data.prompt),
                          NoScript)
       ELSE \E fsOk \in BOOLEAN :
              IF fsOk THEN ScriptReturns(validateScriptData(parsed),
                                         validateScriptData(parsed))
              ELSE ScriptReturns(fallback, NoScript)
  /\ UNCHANGED <<cfg, eval, tempDir, data, queueVars, progress, mediaVars, editorVars,
                 publishVars, progressLog>>

(***************************************************************************)
(* generateScript after model.generateContent: parse, validate, save.  Any *)
(* error inside the outer try block returns the fallback script; the catch *)
(* block does not call saveToDebug.                                        *)
(***************************************************************************)
GenerateScriptResumes ==
  /\ qstate = "active"
  /\ pc = "script_await"
  /\ Answered("gemini")
  /\ \E r \in Outcomes(call) :
       LET fallback == createFallbackScript(data.prompt)
           parsed == IF r = "garbage" THEN fallback ELSE ParsedJson(r) IN
       IF r \in {"fail", "null"} \/ validateScriptDataThrows(parsed)
       THEN ScriptReturns(fallback, NoScript)
       ELSE \E fsOk \in BOOLEAN :
              IF fsOk THEN ScriptReturns(validateScriptData(parsed),
                                         validateScriptData(parsed))
              ELSE ScriptReturns(fallback, NoScript)
  /\ UNCHANGED <<cfg, eval, tempDir, data, queueVars, progress, mediaVars, editorVars,
                 publishVars, progressLog>>

(***************************************************************************)
(* MediaService.                                                           *)
(***************************************************************************)
SubtitleFile == "subtitles.srt"

MediaStep(kind, p, i, paths, ic, n) ==
  /\ IssueCall(kind, p)
  /\ cue' = i
  /\ videoPaths' = paths
  /\ inCatch' = ic
  /\ polls' = n
  /\ UNCHANGED <<thrown, stageLog, mediaFiles>>

MediaThrows(e) ==
  /\ StageThrows("media", e)
  /\ UNCHANGED <<cue, videoPaths, inCatch, polls, mediaFiles>>

(***************************************************************************)
(* generateSubtitles writes the .srt file; generateMedia then returns.     *)
(***************************************************************************)
generateSubtitles(ap, paths) ==
  \E fsOk \in BOOLEAN :
    IF fsOk
    THEN /\ mediaFiles' = [audioPath |-> ap, videoPaths |-> paths,
                           subtitlePath |-> SubtitleFile]
         /\ videoPaths' = paths
         /\ Goto("p50")
         /\ Log(<< <<"ret", "media">> >>)
         /\ inCatch' = FALSE
         /\ UNCHANGED <<thrown, cue, polls>>
    ELSE /\ videoPaths' = paths
         /\ StageThrows("media", "writeFileSync failed")
         /\ inCatch' = FALSE
         /\ UNCHANGED <<cue, polls, mediaFiles>>

(***************************************************************************)
(* generateSingleVideo for the i-th visual prompt, up to its first await.  *)
(***************************************************************************)
generateSingleVideo(i, paths) ==
  CASE cfg.imageProvider = "stablehorde" ->
         MediaStep("horde-submit", "horde_submit_await", i, paths, FALSE, 0)
    [] cfg.imageProvider = "replicate" ->
         MediaStep("replicate-run", "replicate_run_await", i, paths, FALSE, 0)
    [] cfg.imageProvider = "huggingface" ->
         MediaStep("hf-post", "hf_await", i, paths, FALSE, 0)
    [] OTHER ->
         MediaStep("ffmpeg-placeholder", "placeholder_await", i, paths,
                   FALSE, 0)

(***************************************************************************)
(* The for-loop of generateVideos, then generateSubtitles.                 *)
(***************************************************************************)
generateVideos(ap, i, paths) ==
  IF i <= Len(scriptData.visual_prompts)
  THEN generateSingleVideo(i, paths)
  ELSE generateSubtitles(ap, paths)

createPlaceholderVideo ==
  MediaStep("ffmpeg-placeholder", "placeholder_await", cue, videoPaths,
            inCatch, 0)

convertImageToVideo ==
  MediaStep("ffmpeg-convert", "convert_await", cue, videoPaths, inCatch, 0)

MediaFrame ==
  UNCHANGED <<cfg, eval, data, queueVars, progress, scriptData, debugScript, editorVars,
              publishVars, progressLog>>

(***************************************************************************)
(* generateMedia is called: generateAudio spawns edge-tts.                 *)
(***************************************************************************)
CallGenerateMedia ==
  /\ qstate = "active"
  /\ pc = "media"
  /\ IssueCall("edge-tts", "audio_await")
  /\ Log(<< <<"call", "media">> >>)
  /\ UNCHANGED <<thrown, audioPath, videoPaths, cue, inCatch, polls,
                 mediaFiles>>
  /\ UNCHANGED tempDir
  /\ MediaFrame

createSilentAudio ==
  /\ MediaStep("ffmpeg-silent", "silent_await", cue, videoPaths, inCatch,
               polls)
  /\ audioPath' = audioPath

GenerateAudioResumes ==
  /\ qstate = "active"
  /\ pc = "audio_await"
  /\ Answered("edge-tts")
  /\ \E r \in Outcomes(call) : IF r = "ok"
     THEN \E fsOk \in BOOLEAN :
            IF fsOk
            THEN /\ audioPath' = AudioFile
                 /\ generateVideos(AudioFile, 1, <<>>)
            ELSE createSilentAudio
     ELSE createSilentAudio
  /\ Written
  /\ MediaFrame

CreateSilentAudioResumes_OtherPath ==
  /\ qstate = "active"
  /\ pc = "silent_await"
  /\ Answered("ffmpeg-silent")
  /\ \E r \in Outcomes(call) : IF r = "ok"
     THEN /\ audioPath' = "silence.mp3"
          /\ generateVideos("silence.mp3", 1, <<>>)
     ELSE /\ audioPath' = audioPath
          /\ MediaThrows("ffmpeg failed: silent audio")
  /\ Written
  /\ MediaFrame

CreateSilentAudioResumes ==
  /\ qstate = "active"
  /\ pc = "silent_await"
  /\ Answered("ffmpeg-silent")
  /\ \E r \in Outcomes(call) : IF r = "ok"
     THEN /\ audioPath' = AudioFile
          /\ generateVideos(AudioFile, 1, <<>>)
     ELSE /\ audioPath' = audioPath
          /\ MediaThrows("ffmpeg failed: silent audio")
  /\ Written
  /\ MediaFrame

CreatePlaceholderResumes_SkipsCue ==
  /\ qstate = "active"
  /\ pc = "placeholder_await"
  /\ Answered("ffmpeg-placeholder")
  /\ \E r \in Outcomes(call) : IF r = "ok"
     THEN generateVideos(audioPath, cue + 1,
                         Append(videoPaths, ClipFile(scriptData.visual_prompts[cue].index)))
     ELSE IF ~inCatch
          THEN MediaStep("ffmpeg-placeholder", "placeholder_await", cue,
                         videoPaths, TRUE, 0)
          ELSE generateVideos(audioPath, cue + 1, videoPaths)
  /\ audioPath' = audioPath
  /\ Written
  /\ MediaFrame

(***************************************************************************)
(* createPlaceholderVideo after ffmpeg closed.  A rejection inside         *)
(* generateSingleVideo is caught by generateVideos, which creates the      *)
(* placeholder once more; a rejection there leaves generateVideos.         *)
(***************************************************************************)
CreatePlaceholderResumes ==
  /\ qstate = "active"
  /\ pc = "placeholder_await"
  /\ Answered("ffmpeg-placeholder")
  /\ \E r \in Outcomes(call) : IF r = "ok"
     THEN generateVideos(audioPath, cue + 1,
                         Append(videoPaths, ClipFile(scriptData.visual_prompts[cue].index)))
     ELSE IF ~inCatch
          THEN MediaStep("ffmpeg-placeholder", "placeholder_await", cue,
                         videoPaths, TRUE, 0)
          ELSE MediaThrows("ffmpeg failed: placeholder")
  /\ audioPath' = audioPath
  /\ Written
  /\ MediaFrame

(***************************************************************************)
(* The tail shared by the three providers: the image is written, converted *)
(* to a clip, and the clip is copied to the debug directory.               *)
(***************************************************************************)
ImageDownloaded ==
  \E fsOk \in BOOLEAN :
    IF fsOk THEN convertImageToVideo ELSE createPlaceholderVideo

ConvertImageResumes ==
  /\ qstate = "active"
  /\ pc = "convert_await"
  /\ Answered("ffmpeg-convert")
  /\ \E r \in Outcomes(call) : IF r = "ok"
     THEN \E fsOk \in BOOLEAN :
            IF fsOk
            THEN generateVideos(audioPath, cue + 1,
                   Append(videoPaths, ClipFile(scriptData.visual_prompts[cue].index)))
            ELSE createPlaceholderVideo
     ELSE createPlaceholderVideo
  /\ audioPath' = audioPath
  /\ Written
  /\ MediaFrame

HuggingFaceResumes_FailureFatal ==
  /\ qstate = "active"
  /\ pc = "hf_await"
  /\ Answered("hf-post")
  /\ \E r \in Outcomes(call) :
       IF r = "ok" THEN ImageDownloaded
       ELSE MediaThrows("Hugging Face request failed")
  /\ audioPath' = audioPath
  /\ UNCHANGED tempDir
  /\ MediaFrame

(***************************************************************************)
(* generateVideoFromImage (Hugging Face).                                  *)
(***************************************************************************)
HuggingFaceResumes ==
  /\ qstate = "active"
  /\ pc = "hf_await"
  /\ Answered("hf-post")
  /\ \E r \in Outcomes(call) : IF r = "ok" THEN ImageDownloaded ELSE createPlaceholderVideo
  /\ audioPath' = audioPath
  /\ UNCHANGED tempDir
  /\ MediaFrame

(***************************************************************************)
(* generateVideoFromImageReplicate.                                        *)
(***************************************************************************)
ReplicateRunResumes ==
  /\ qstate = "active"
  /\ pc = "replicate_run_await"
  /\ Answered("replicate-run")
  /\ \E r \in Outcomes(call) : IF r = "ok"
     THEN MediaStep("replicate-download", "replicate_download_await", cue,
                    videoPaths, inCatch, 0)
     ELSE createPlaceholderVideo
  /\ audioPath' = audioPath
  /\ UNCHANGED tempDir
  /\ MediaFrame

ReplicateDownloadResumes ==
  /\ qstate = "active"
  /\ pc = "replicate_download_await"
  /\ Answered("replicate-download")
  /\ \E r \in Outcomes(call) : IF r = "ok" THEN ImageDownloaded ELSE createPlaceholderVideo
  /\ audioPath' = audioPath
  /\ UNCHANGED tempDir
  /\ MediaFrame

(***************************************************************************)
(* generateVideoFromImageStableHorde: submit, poll every 3 seconds at most *)
(* maxAttempts times, fetch the result, download the image.                *)
(***************************************************************************)
HordeSleep ==
  /\ Goto("horde_sleep")
  /\ UNCHANGED <<thrown, stageLog, mediaFiles, cue, videoPaths, inCatch,
                 polls>>

HordeSubmitResumes ==
  /\ qstate = "active"
  /\ pc = "horde_submit_await"
  /\ Answered("horde-submit")
  /\ \E r \in Outcomes(call) : IF r = "ok"
     THEN IF 0 < maxAttempts THEN HordeSleep ELSE createPlaceholderVideo
     ELSE createPlaceholderVideo
  /\ audioPath' = audioPath
  /\ UNCHANGED tempDir
  /\ MediaFrame

HordePoll ==
  /\ qstate = "active"
  /\ pc = "horde_sleep"
  /\ MediaStep("horde-check", "horde_check_await", cue, videoPaths, inCatch,
               polls + 1)
  /\ audioPath' = audioPath
  /\ UNCHANGED tempDir
  /\ MediaFrame

HordeCheckResumes_OneMorePoll ==
  /\ qstate = "active"
  /\ pc = "horde_check_await"
  /\ Answered("horde-check")
  /\ \E r \in Outcomes(call) :
       CASE r = "done" ->
              MediaStep("horde-status", "horde_status_await", cue,
                        videoPaths, inCatch, 0)
         [] r = "pending" ->
              IF polls <= maxAttempts THEN HordeSleep
              ELSE createPlaceholderVideo
         [] OTHER -> createPlaceholderVideo
  /\ audioPath' = audioPath
  /\ UNCHANGED tempDir
  /\ MediaFrame

HordeCheckResumes ==
  /\ qstate = "active"
  /\ pc = "horde_check_await"
  /\ Answered("horde-check")
  /\ \E r \in Outcomes(call) :
       CASE r = "done" ->
              MediaStep("horde-status", "horde_status_await", cue,
                        videoPaths, inCatch, 0)
         [] r = "pending" ->
              IF polls < maxAttempts THEN HordeSleep
              ELSE createPlaceholderVideo
         [] OTHER -> createPlaceholderVideo
  /\ audioPath' = audioPath
  /\ UNCHANGED tempDir
  /\ MediaFrame

HordeStatusResumes ==
  /\ qstate = "active"
  /\ pc = "horde_status_await"
  /\ Answered("horde-status")
  /\ \E r \in Outcomes(call) : IF r = "ok"
     THEN MediaStep("horde-download", "horde_download_await", cue,
                    videoPaths, inCatch, 0)
     ELSE createPlaceholderVideo
  /\ audioPath' = audioPath
  /\ UNCHANGED tempDir
  /\ MediaFrame

HordeDownloadResumes ==
  /\ qstate = "active"
  /\ pc = "horde_download_await"
  /\ Answered("horde-download")
  /\ \E r \in Outcomes(call) : IF r = "ok" THEN ImageDownloaded ELSE createPlaceholderVideo
  /\ audioPath' = audioPath
  /\ UNCHANGED tempDir
  /\ MediaFrame

(***************************************************************************)
(* EditorService.assembleVideo: concatenate, reconcile the duration of the *)
(* video with the audio (trim or loop), mux audio and subtitles.           *)
(***************************************************************************)
Ceil(a, b) == (a + b - 1) \div b

EditorFrame ==
  UNCHANGED <<cfg, eval, tempDir, data, queueVars, progress, scriptData, debugScript, mediaVars,
              publishVars, progressLog>>

EditorStep(kind, p) ==
  /\ IssueCall(kind, p)
  /\ UNCHANGED <<thrown, stageLog>>

AssembleThrows(e) ==
  /\ StageThrows("assemble", e)
  /\ UNCHANGED editorVars

(***************************************************************************)
(* What ffmpeg does with the options the code passes: `-stream_loop n'     *)
(* plays the input n more times, and setDuration(t) cuts the output at t.  *)
(***************************************************************************)
StreamLoop(n, duration) == (n + 1) * duration
SetDuration(duration, t) == IF duration < t THEN duration ELSE t

(***************************************************************************)
(* addAudioAndSubtitles is started on the video path that                  *)
(* loopVideoToMatchAudio resolved with.                                    *)
(***************************************************************************)
addAudioAndSubtitles(videoPath, duration) ==
  /\ loopedVideoPath' = videoPath
  /\ reconciledDuration' = duration
  /\ EditorStep("ffmpeg-mux", "mux_await")

CallAssembleVideo ==
  /\ qstate = "active"
  /\ pc = "assemble"
  /\ IssueCall("ffmpeg-concat", "concat_await")
  /\ Log(<< <<"call", "assemble">> >>)
  /\ UNCHANGED <<thrown, editorVars>>
  /\ EditorFrame

ConcatenateResumes ==
  /\ qstate = "active"
  /\ pc = "concat_await"
  /\ Answered("ffmpeg-concat")
  /\ \E r \in Outcomes(call) : IF r = "ok"
     THEN /\ EditorStep("ffprobe-audio", "probe_audio_await")
          /\ UNCHANGED editorVars
     ELSE AssembleThrows("ffmpeg failed: concatenate")
  /\ EditorFrame

ProbeAudioResumes ==
  /\ qstate = "active"
  /\ pc = "probe_audio_await"
  /\ Answered("ffprobe-audio")
  /\ \E r \in Outcomes(call) : IF r = "ok"
     THEN /\ \E d \in Durations : audioDuration' = d
          /\ EditorStep("ffprobe-video", "probe_video_await")
          /\ UNCHANGED <<videoDuration, loopCount, loopedVideoPath,
                         reconciledDuration, finalVideoPath>>
     ELSE /\ addAudioAndSubtitles(ConcatenatedFile, 0)
          /\ UNCHANGED <<audioDuration, videoDuration, loopCount,
                         finalVideoPath>>
  /\ EditorFrame

ProbeVideoResumes_StrictlyLonger ==
  /\ qstate = "active"
  /\ pc = "probe_video_await"
  /\ Answered("ffprobe-video")
  /\ \E r \in Outcomes(call) : IF r = "ok"
     THEN /\ \E d \in Durations :
               /\ videoDuration' = d
               /\ IF d > audioDuration
                  THEN EditorStep("ffmpeg-trim", "trim_await")
                  ELSE EditorStep("ffprobe-loop", "loop_probe_await")
          /\ UNCHANGED <<audioDuration, loopCount, loopedVideoPath,
                         reconciledDuration, finalVideoPath>>
     ELSE /\ addAudioAndSubtitles(ConcatenatedFile, 0)
          /\ UNCHANGED <<audioDuration, videoDuration, loopCount,
                         finalVideoPath>>
  /\ EditorFrame

ProbeVideoResumes ==
  /\ qstate = "active"
  /\ pc = "probe_video_await"
  /\ Answered("ffprobe-video")
  /\ \E r \in Outcomes(call) : IF r = "ok"
     THEN /\ \E d \in Durations :
               /\ videoDuration' = d
               /\ IF d >= audioDuration
                  THEN EditorStep("ffmpeg-trim", "trim_await")
                  ELSE EditorStep("ffprobe-loop", "loop_probe_await")
          /\ UNCHANGED <<audioDuration, loopCount, loopedVideoPath,
                         reconciledDuration, finalVideoPath>>
     ELSE /\ addAudioAndSubtitles(ConcatenatedFile, 0)
          /\ UNCHANGED <<audioDuration, videoDuration, loopCount,
                         finalVideoPath>>
  /\ EditorFrame

TrimVideoResumes_MuxesConcatenated ==
  /\ qstate = "active"
  /\ pc = "trim_await"
  /\ Answered("ffmpeg-trim")
  /\ \E r \in Outcomes(call) : IF r = "ok"
     THEN /\ addAudioAndSubtitles(ConcatenatedFile,
                                  SetDuration(videoDuration, audioDuration))
          /\ UNCHANGED <<audioDuration, videoDuration, loopCount,
                         finalVideoPath>>
     ELSE AssembleThrows("ffmpeg failed: trim")
  /\ EditorFrame

(***************************************************************************)
(* trimVideo settles: its promise is passed on with .then(resolve) and     *)
(* .catch(reject), so its error rejects loopVideoToMatchAudio.             *)
(***************************************************************************)
TrimVideoResumes ==
  /\ qstate = "active"
  /\ pc = "trim_await"
  /\ Answered("ffmpeg-trim")
  /\ \E r \in Outcomes(call) : IF r = "ok"
     THEN /\ addAudioAndSubtitles(TrimmedFile,
                                  SetDuration(videoDuration, audioDuration))
          /\ UNCHANGED <<audioDuration, videoDuration, loopCount,
                         finalVideoPath>>
     ELSE AssembleThrows("ffmpeg failed: trim")
  /\ EditorFrame

LoopProbeResumes_Floor ==
  /\ qstate = "active"
  /\ pc = "loop_probe_await"
  /\ Answered("ffprobe-loop")
  /\ \E r \in Outcomes(call) : IF r = "ok"
     THEN /\ loopCount' = audioDuration \div videoDuration
          /\ EditorStep("ffmpeg-loop", "loop_await")
          /\ UNCHANGED <<audioDuration, videoDuration, loopedVideoPath,
                         reconciledDuration, finalVideoPath>>
     ELSE AssembleThrows("ffprobe failed: loop")
  /\ EditorFrame

(***************************************************************************)
(* loopVideo probes the concatenated video again (the same file, so the    *)
(* same duration when the probe succeeds) and computes the loop count.     *)
(***************************************************************************)
LoopProbeResumes ==
  /\ qstate = "active"
  /\ pc = "loop_probe_await"
  /\ Answered("ffprobe-loop")
  /\ \E r \in Outcomes(call) : IF r = "ok"
     THEN /\ loopCount' = Ceil(audioDuration, videoDuration)
          /\ EditorStep("ffmpeg-loop", "loop_await")
          /\ UNCHANGED <<audioDuration, videoDuration, loopedVideoPath,
                         reconciledDuration, finalVideoPath>>
     ELSE AssembleThrows("ffprobe failed: loop")
  /\ EditorFrame

LoopVideoResumes_FallsBack ==
  /\ qstate = "active"
  /\ pc = "loop_await"
  /\ Answered("ffmpeg-loop")
  /\ \E r \in Outcomes(call) :
       /\ IF r = "ok"
          THEN addAudioAndSubtitles(LoopedFile,
                 SetDuration(StreamLoop(loopCount - 1, videoDuration),
                             audioDuration))
          ELSE addAudioAndSubtitles(ConcatenatedFile, 0)
       /\ UNCHANGED <<audioDuration, videoDuration, loopCount,
                      finalVideoPath>>
  /\ EditorFrame

LoopVideoResumes ==
  /\ qstate = "active"
  /\ pc = "loop_await"
  /\ Answered("ffmpeg-loop")
  /\ \E r \in Outcomes(call) : IF r = "ok"
     THEN /\ addAudioAndSubtitles(LoopedFile,
               SetDuration(StreamLoop(loopCount - 1, videoDuration),
                           audioDuration))
          /\ UNCHANGED <<audioDuration, videoDuration, loopCount,
                         finalVideoPath>>
     ELSE AssembleThrows("ffmpeg failed: loop")
  /\ EditorFrame

MuxResumes_PlaceholderOutput ==
  /\ qstate = "active"
  /\ pc = "mux_await"
  /\ Answered("ffmpeg-mux")
  /\ \E r \in Outcomes(call) :
       /\ finalVideoPath' = IF r = "ok" THEN OutputFile ELSE loopedVideoPath
       /\ Goto("p75")
       /\ Log(<< <<"ret", "assemble">> >>)
       /\ UNCHANGED <<thrown, audioDuration, videoDuration, loopCount,
                      loopedVideoPath, reconciledDuration>>
  /\ EditorFrame

MuxResumes ==
  /\ qstate = "active"
  /\ pc = "mux_await"
  /\ Answered("ffmpeg-mux")
  /\ \E r \in Outcomes(call) : IF r = "ok"
     THEN /\ finalVideoPath' = OutputFile
          /\ Goto("p75")
          /\ Log(<< <<"ret", "assemble">> >>)
          /\ UNCHANGED <<thrown, audioDuration, videoDuration, loopCount,
                         loopedVideoPath, reconciledDuration>>
     ELSE AssembleThrows("ffmpeg failed: mux")
  /\ EditorFrame

(***************************************************************************)
(* PublisherService.uploadToSocial: each requested platform is tried in    *)
(* its own try block; a platform that fails gets no key in uploadUrls.     *)
(* The YouTube client and the TikTok access token are configuration that   *)
(* only these blocks read, once per job: they are drawn where they are     *)
(* read.                                                                   *)
(***************************************************************************)
YoutubeUrl == "https://www.youtube.com/watch?v=<id>"
TiktokUrl == "https://tiktok.com/@user/video/placeholder"

OrFalse(f) == IF Truthy(f) THEN "true" ELSE "false"

(***************************************************************************)
(* uploadToTikTok awaits nothing: it throws without an access token and    *)
(* returns the placeholder URL otherwise.                                  *)
(***************************************************************************)
uploadToTikTok(accessToken) == IF accessToken THEN "ok" ELSE "failed"

UploadToSocialReturns_OneTryBlock(youtubeResult, uploadToTiktok, accessToken) ==
  LET tiktokResult == IF Truthy(uploadToTiktok) /\ youtubeResult # "failed"
                      THEN uploadToTikTok(accessToken) ELSE "none"
      urls1 == IF youtubeResult = "ok"
               THEN EmptyUrls @@ ("youtube" :> YoutubeUrl) ELSE EmptyUrls
      urls2 == IF tiktokResult = "ok"
               THEN urls1 @@ ("tiktok" :> TiktokUrl) ELSE urls1 IN
  /\ uploadUrls' = urls2
  /\ platformResult' = [youtube |-> youtubeResult, tiktok |-> tiktokResult]
  /\ Goto("p90")

(***************************************************************************)
(* The two try blocks of uploadToSocial, given how the YouTube upload      *)
(* ended: a key is set only by an upload that returned.                    *)
(***************************************************************************)
UploadToSocialReturns(youtubeResult, uploadToTiktok, accessToken) ==
  LET tiktokResult == IF Truthy(uploadToTiktok)
                      THEN uploadToTikTok(accessToken) ELSE "none"
      urls1 == IF youtubeResult = "ok"
               THEN EmptyUrls @@ ("youtube" :> YoutubeUrl) ELSE EmptyUrls
      urls2 == IF tiktokResult = "ok"
               THEN urls1 @@ ("tiktok" :> TiktokUrl) ELSE urls1 IN
  /\ uploadUrls' = urls2
  /\ platformResult' = [youtube |-> youtubeResult, tiktok |-> tiktokResult]
  /\ Goto("p90")

PublishFrame ==
  UNCHANGED <<cfg, eval, tempDir, data, queueVars, progress, thrown, scriptData, debugScript, mediaVars,
              editorVars, progressLog>>

(***************************************************************************)
(* uploadToSocial up to its first await: uploadToYouTube throws at once    *)
(* when the client is not configured, and awaits videos.insert otherwise.  *)
(***************************************************************************)
CallUploadToSocial ==
  /\ qstate = "active"
  /\ pc = "publish"
  /\ LET uploadToYoutube == OrFalse(data.uploadToYoutube)
         uploadToTiktok == OrFalse(data.uploadToTiktok) IN
       \E youtube \in BOOLEAN, accessToken \in BOOLEAN :
         IF Truthy(uploadToYoutube) /\ youtube
         THEN /\ IssueCall("youtube-insert", "youtube_await")
              /\ Log(<< <<"call", "publish">> >>)
              /\ UNCHANGED publishVars
         ELSE /\ UploadToSocialReturns(
                   IF Truthy(uploadToYoutube) THEN "failed" ELSE "none",
                   uploadToTiktok, accessToken)
              /\ Log(<< <<"call", "publish">>, <<"ret", "publish">> >>)
  /\ PublishFrame

UploadToYouTubeResumes ==
  /\ qstate = "active"
  /\ pc = "youtube_await"
  /\ Answered("youtube-insert")
  /\ \E r \in Outcomes(call), accessToken \in BOOLEAN :
       UploadToSocialReturns(IF r = "ok" THEN "ok" ELSE "failed",
                             OrFalse(data.uploadToTiktok), accessToken)
  /\ Log(<< <<"ret", "publish">> >>)
  /\ PublishFrame

(***************************************************************************)
(* Functions of the services applied to one input each: eval.arg is the    *)
(* input, eval.ret the value the function returned.                        *)
(***************************************************************************)
jobVars == <<qstate, data, attemptsMade, progress, returnvalue, failedReason,
             backoffDelay, pc, call, thrown, scriptData, debugScript, mediaVars,
             editorVars, publishVars, progressLog, stageLog, executions>>

Evaluation(fn, arg) == [fn |-> fn, arg |-> arg, applied |-> FALSE, ret |-> <<>>]

Returns(value) ==
  /\ ~eval.applied
  /\ eval' = [eval EXCEPT !.applied = TRUE, !.ret = value]
  /\ UNCHANGED <<cfg, tempDir, jobVars>>

ApplyCreateFallbackScript ==
  /\ eval.fn = "createFallbackScript"
  /\ Returns(createFallbackScript(eval.arg))

(***************************************************************************)
(* EditorService.addAudioAndSubtitles: the subtitle path as it is put into *)
(* the `subtitles=' filter argument.  String.replace with a global regular *)
(* expression replaces every occurrence, from left to right.               *)
(***************************************************************************)
RECURSIVE ReplaceAll(_, _, _)
ReplaceAll(text, ch, by) ==
  IF text = <<>> THEN <<>>
  ELSE (IF Head(text) = ch THEN by ELSE <<Head(text)>>)
         \o ReplaceAll(Tail(text), ch, by)

Paths == Texts(MaxPathLen)

escapedSubtitlePath(subtitlePath) ==
  ReplaceAll(ReplaceAll(subtitlePath, "\\", <<"/">>), ":", <<"\\", ":">>)

ApplyEscapedSubtitlePath ==
  /\ eval.fn = "escapedSubtitlePath"
  /\ Returns(escapedSubtitlePath(eval.arg))

(***************************************************************************)
(* MediaService.formatSrtTime.  Times are whole milliseconds: `seconds' of *)
(* the code is ms / 1000, so seconds % 60 is (ms % 60000) / 1000 and       *)
(* (seconds % 1) * 1000 is ms % 1000.  The rounding of binary floating     *)
(* point is not modelled.  A string is a sequence of characters.           *)
(***************************************************************************)
DigitChars == <<"0", "1", "2", "3", "4", "5", "6", "7", "8", "9">>

RECURSIVE String(_)
String(n) ==
  IF n < 10 THEN <<DigitChars[n + 1]>>
  ELSE String(n \div 10) \o <<DigitChars[(n % 10) + 1]>>

padStart_Unpadded(text, targetLength, padString) == text

padStart(text, targetLength, padString) ==
  IF Len(text) >= targetLength THEN text
  ELSE [i \in 1..(targetLength - Len(text)) |-> padString] \o text

formatSrtTime_MinutesOfDay(ms) ==
  LET hours == ms \div 3600000
      minutes == ms \div 60000
      secs == (ms % 60000) \div 1000
      millis == ms % 1000
  IN padStart(String(hours), 2, "0") \o <<":">>
       \o padStart(String(minutes), 2, "0") \o <<":">>
       \o padStart(String(secs), 2, "0") \o <<",">>
       \o padStart(String(millis), 3, "0")

formatSrtTime(ms) ==
  LET hours == ms \div 3600000
      minutes == (ms % 3600000) \div 60000
      secs == (ms % 60000) \div 1000
      millis == ms % 1000
  IN padStart(String(hours), 2, "0") \o <<":">>
       \o padStart(String(minutes), 2, "0") \o <<":">>
       \o padStart(String(secs), 2, "0") \o <<",">>
       \o padStart(String(millis), 3, "0")

(***************************************************************************)
(* The inputs: every time up to MaxMillis and the times around the minute, *)
(* the hour and one hundred hours.                                         *)
(***************************************************************************)
Millis ==
  (0..MaxMillis) \cup {59999, 60000, 3599999, 3600000, 3665000, 3723005,
                        359999999, 360000000, 360000001}

ApplyFormatSrtTime ==
  /\ eval.fn = "formatSrtTime"
  /\ Returns(formatSrtTime(eval.arg))

(***************************************************************************)
(* MediaService.generateSubtitles: the text written to the .srt file, as   *)
(* the sequence of its lines (every line ends with a newline).  The cues   *)
(* are whatever the script holds: their times need not be contiguous.      *)
(***************************************************************************)
CueTimes == {0, 1500, 10000}
CueTexts == {"t", "u"}
Cues == [start : CueTimes, end : CueTimes, text : CueTexts]
Timestamps == UNION {[1..n -> Cues] : n \in 0..MaxCues}

RECURSIVE srtContent_ZeroBased(_, _)
srtContent_ZeroBased(timestamps, index) ==
  IF index >= Len(timestamps) THEN <<>>
  ELSE LET segment == timestamps[index + 1]
           startTime == formatSrtTime(segment.start)
           endTime == formatSrtTime(segment.end)
       IN << String(index),
             startTime \o <<" --> ">> \o endTime,
             <<segment.text>>,
             <<>> >> \o srtContent_ZeroBased(timestamps, index + 1)

RECURSIVE srtContent(_, _)
srtContent(timestamps, index) ==
  IF index >= Len(timestamps) THEN <<>>
  ELSE LET segment == timestamps[index + 1]
           startTime == formatSrtTime(segment.start)
           endTime == formatSrtTime(segment.end)
       IN << String(index + 1),
             startTime \o <<" --> ">> \o endTime,
             <<segment.text>>,
             <<>> >> \o srtContent(timestamps, index + 1)

ApplyGenerateSubtitles ==
  /\ eval.fn = "generateSubtitles"
  /\ Returns(srtContent(eval.arg, 0))

(***************************************************************************)
(* handleVideoGeneration: the arguments of uploadToSocial.  The optional   *)
(* fields of the request are strings or absent; tags is one string.        *)
(***************************************************************************)
OptionalTexts == {Undefined, Str(<<>>), Str(<<"given">>)}
TagChars == {"x", ",", " "}
TagTexts == UNION {[1..k -> TagChars] : k \in 1..MaxTagsLen}
OptionalTags == {Undefined, Str(<<>>)} \cup {Str(t) : t \in TagTexts}

RECURSIVE split(_, _)
split(text, separator) ==
  IF \A i \in 1..Len(text) : text[i] # separator THEN <<text>>
  ELSE LET i == CHOOSE k \in 1..Len(text) :
                  /\ text[k] = separator
                  /\ \A j \in 1..(k - 1) : text[j] # separator
       IN <<SubSeq(text, 1, i - 1)>>
            \o split(SubSeq(text, i + 1, Len(text)), separator)

RECURSIVE trimStart(_)
trimStart(text) ==
  IF text # <<>> /\ Head(text) = " " THEN trimStart(Tail(text)) ELSE text

RECURSIVE trimEnd(_)
trimEnd(text) ==
  IF text # <<>> /\ text[Len(text)] = " "
  THEN trimEnd(SubSeq(text, 1, Len(text) - 1)) ELSE text

trim(text) == trimEnd(trimStart(text))

videoTitle(d) ==
  IF Falsy(d.title) THEN <<"AI Generated Video: ">> \o d.prompt
  ELSE d.title.text

videoDescription(d) ==
  IF Falsy(d.description)
  THEN <<"This video was automatically generated about: ">> \o d.prompt
  ELSE d.description.text

videoTags_Untrimmed(d) ==
  IF Falsy(d.tags) THEN << <<"AI">>, <<"Generated">>, <<"Video">> >>
  ELSE split(d.tags.text, ",")

videoTags(d) ==
  IF Falsy(d.tags) THEN << <<"AI">>, <<"Generated">>, <<"Video">> >>
  ELSE LET pieces == split(d.tags.text, ",")
       IN [i \in 1..Len(pieces) |-> trim(pieces[i])]

NotCalled == [called |-> FALSE]

uploadToSocialArguments(d, videoPath) ==
  IF Truthy(d.uploadToYoutube) \/ Truthy(d.uploadToTiktok)
  THEN [called |-> TRUE,
        videoPath |-> videoPath,
        title |-> videoTitle(d),
        description |-> videoDescription(d),
        tags |-> videoTags(d),
        uploadToYoutube |-> OrFalse(d.uploadToYoutube),
        uploadToTiktok |-> OrFalse(d.uploadToTiktok)]
  ELSE NotCalled

UploadRequests ==
  [prompt : JobPrompts, title : OptionalTexts, description : OptionalTexts,
   tags : OptionalTags, uploadToYoutube : Flag, uploadToTiktok : Flag]

ApplyUploadToSocialArguments ==
  /\ eval.fn = "uploadToSocialArguments"
  /\ Returns(uploadToSocialArguments(eval.arg, OutputFile))

(***************************************************************************)
(* AppController.generateVideo: the jobId is made of Date.now() and of the *)
(* characters 2..10 of Math.random() written in base 36, which are at most *)
(* nine characters and can be none.  Both are values the program draws     *)
(* from the outside; the clock does not go back between two calls.         *)
(***************************************************************************)
Nows == {1, 2, 10}
RandomChars == {"0"}
Randoms == UNION {[1..k -> RandomChars] : k \in 0..MaxRandomLen}
Draws == [now : Nows, random : Randoms]

jobId(draw) ==
  <<"j", "o", "b", "_">> \o String(draw.now) \o <<"_">> \o draw.random

JobIds == {jobId(draw) : draw \in Draws}

ApplyGenerateVideoTwice ==
  /\ eval.fn = "generateVideo"
  /\ Returns(<<jobId(eval.arg[1]), jobId(eval.arg[2])>>)

(***************************************************************************)
(* FilesystemService: a file of a job in the temp directory, and           *)
(* cleanupTemp.  RegExp(`^${jobId}_`).test(file) is a prefix test for the  *)
(* jobIds that generateVideo makes, which hold no character that is        *)
(* special in a regular expression.  The directory is a set of file names; *)
(* cleanupTemp returns the directory it leaves.                            *)
(***************************************************************************)
Suffixes == {<<"a">>}
TempFileName(id, suffix) == id \o <<"_">> \o suffix
ForeignFile == <<"x">>
FilePool == {TempFileName(id, sfx) : id \in JobIds, sfx \in Suffixes}
              \cup {ForeignFile}
Directories == {files \in SUBSET FilePool : Cardinality(files) <= MaxFiles}

StartsWith(text, prefix) ==
  /\ Len(text) >= Len(prefix)
  /\ SubSeq(text, 1, Len(prefix)) = prefix

cleanupTemp_NoSeparator(files, id) ==
  {file \in files : ~StartsWith(file, id)}

cleanupTemp(files, id) ==
  {file \in files : ~StartsWith(file, id \o <<"_">>)}

ApplyCleanupTemp ==
  /\ eval.fn = "cleanupTemp"
  /\ Returns(cleanupTemp(eval.arg.files, eval.arg.jobId))

(***************************************************************************)
(* MediaService.createPlaceholderVideo: the text and the duration that are *)
(* put into the ffmpeg arguments.  substring(0, 50) keeps at most the      *)
(* first 50 characters; replace(/[:\\]/g, '\\$&') puts a backslash before  *)
(* every colon and every backslash; `duration || 5' replaces a duration    *)
(* that is missing or 0 (written 0 here).                                  *)
(***************************************************************************)
RECURSIVE ReplaceMatches(_, _)
ReplaceMatches(text, class) ==
  IF text = <<>> THEN <<>>
  ELSE (IF Head(text) \in class THEN <<"\\", Head(text)>>
        ELSE <<Head(text)>>) \o ReplaceMatches(Tail(text), class)

placeholderText(prompt) ==
  ReplaceMatches(Substring(prompt.prompt, 0, 50), {":", "\\"})

placeholderDuration(prompt) ==
  IF prompt.duration = 0 THEN 5 ELSE prompt.duration

LongPrefixes == {[i \in 1..n |-> "a"] : n \in {48, 49, 50}}
Descriptors ==
  Prompts \cup {long \o tail : long \in LongPrefixes, tail \in Texts(2)}
CueDurations == {0, 5, 10}
VisualPrompts == [prompt : Descriptors, duration : CueDurations]

ApplyCreatePlaceholderVideo ==
  /\ eval.fn = "createPlaceholderVideo"
  /\ Returns([text |-> placeholderText(eval.arg),
              duration |-> placeholderDuration(eval.arg)])

(***************************************************************************)
(* The specification.                                                      *)
(***************************************************************************)
Next ==
  \/ generateVideo
  \/ ProcessJob
  \/ BackoffElapsed
  \/ Progress10
  \/ CallGenerateScript
  \/ GenerateScriptResumes
  \/ Progress25
  \/ CallGenerateMedia
  \/ GenerateAudioResumes
  \/ CreateSilentAudioResumes
  \/ CreatePlaceholderResumes
  \/ ConvertImageResumes
  \/ HuggingFaceResumes
  \/ ReplicateRunResumes
  \/ ReplicateDownloadResumes
  \/ HordeSubmitResumes
  \/ HordePoll
  \/ HordeCheckResumes
  \/ HordeStatusResumes
  \/ HordeDownloadResumes
  \/ Progress50
  \/ CallAssembleVideo
  \/ ConcatenateResumes
  \/ ProbeAudioResumes
  \/ ProbeVideoResumes
  \/ TrimVideoResumes
  \/ LoopProbeResumes
  \/ LoopVideoResumes
  \/ MuxResumes
  \/ Progress75
  \/ CallUploadToSocial
  \/ UploadToYouTubeResumes
  \/ Progress90
  \/ Progress100
  \/ HandlerReturns
  \/ HandlerRejects

Spec == Init /\ [][Next]_vars

(***************************************************************************)
(* Scheduling: the event loop runs every continuation that is ready, the   *)
(* worker takes every waiting job and every backoff delay elapses.         *)
(***************************************************************************)
FairSpec == Spec /\ WF_vars(Next)

(***************************************************************************)
(* The specification of the functions: one function is applied to one      *)
(* input drawn from a bounded set; no job is submitted.                    *)
(***************************************************************************)
FunctionInit ==
  /\ cfg = [genAI |-> FALSE, imageProvider |-> "none"]
  /\ \/ eval \in {Evaluation("createFallbackScript", p) : p \in Prompts}
     \/ eval \in {Evaluation("escapedSubtitlePath", p) : p \in Paths}
     \/ eval \in {Evaluation("formatSrtTime", ms) : ms \in Millis}
     \/ eval \in {Evaluation("generateSubtitles", t) : t \in Timestamps}
     \/ eval \in {Evaluation("uploadToSocialArguments", d) :
                     d \in UploadRequests}
     \/ eval \in {Evaluation("generateVideo", calls) :
                     calls \in {c \in Draws \X Draws : c[2].now >= c[1].now}}
     \/ eval \in {Evaluation("cleanupTemp", [files |-> f, jobId |-> id]) :
                     f \in Directories, id \in JobIds}
     \/ eval \in {Evaluation("createPlaceholderVideo", vp) :
                     vp \in VisualPrompts}
  /\ NoJob

FunctionNext ==
  \/ ApplyCreateFallbackScript
  \/ ApplyEscapedSubtitlePath
  \/ ApplyFormatSrtTime
  \/ ApplyGenerateSubtitles
  \/ ApplyUploadToSocialArguments
  \/ ApplyGenerateVideoTwice
  \/ ApplyCleanupTemp
  \/ ApplyCreatePlaceholderVideo

FunctionSpec == FunctionInit /\ [][FunctionNext]_vars

(***************************************************************************)
(* Properties.                                                             *)
(***************************************************************************)
Range(s) == {s[i] : i \in 1..Len(s)}
Requested == Truthy(data.uploadToYoutube) \/ Truthy(data.uploadToTiktok)
Completed == qstate = "completed"
Terminal == qstate \in {"completed", "failed"}
Calls(stage) ==
  Cardinality({i \in 1..Len(stageLog) : stageLog[i] = <<"call", stage>>})
IsPrefix(s, t) == Len(s) <= Len(t) /\ \A i \in 1..Len(s) : s[i] = t[i]
Checkpoints == <<10, 25, 50, 75, 90, 100>>

(***************************************************************************)
(* C1: in an attempt that completes for a job with neither upload flag     *)
(* set, the values passed to job.progress are exactly 10, 25, 50, 75, 90,  *)
(* 100 in that order, and the result's uploadUrls is the empty mapping;    *)
(* while the attempt runs, the values reported so far are a prefix of that *)
(* sequence.                                                               *)
(***************************************************************************)
C1_ProgressSequence ==
  /\ (Completed /\ ~Requested) =>
       /\ progressLog = Checkpoints
       /\ returnvalue.uploadUrls = EmptyUrls
  /\ ~Requested => IsPrefix(progressLog, Checkpoints)

C1_Witness ==
  /\ Completed
  /\ ~Requested
  /\ progressLog = <<10, 25, 50, 75, 90, 100>>
  /\ returnvalue.uploadUrls = EmptyUrls

(***************************************************************************)
(* C2: the progress a status query sees is an integer in 0..100 that never *)
(* decreases over the lifetime of the job, retries included.               *)
(***************************************************************************)
C2_ProgressNeverDecreases ==
  [][progress' \in 0..100 /\ progress' >= progress]_vars

(***************************************************************************)
(* C3: within one attempt the stages are called in the order script,       *)
(* media, assemble, publish; a stage is called only when the stage before  *)
(* it has returned; and the checkpoint of a stage (25, 50, 75, 90) is      *)
(* reported only when the call of that stage has returned.                 *)
(***************************************************************************)
StageOrder == <<"script", "media", "assemble", "publish">>
StageCheckpoint(stage) ==
  CASE stage = "script" -> 25
    [] stage = "media" -> 50
    [] stage = "assemble" -> 75
    [] stage = "publish" -> 90

(* The k-th call of the log is the call of the k-th stage, it directly     *)
(* follows the return of the stage before it, and only the last call of    *)
(* the log may still be running.                                           *)
Sequential(log) ==
  \A i \in 1..Len(log) :
    /\ i % 2 = 1 => /\ (i + 1) \div 2 <= Len(StageOrder)
                    /\ log[i] = <<"call", StageOrder[(i + 1) \div 2]>>
    /\ i % 2 = 0 => /\ log[i][1] \in {"ret", "throw"}
                    /\ log[i][2] = log[i - 1][2]
                    /\ log[i][1] = "throw" => i = Len(log)

C3_StagesSequential ==
  /\ Sequential(stageLog)
  /\ \A k \in 1..Len(StageOrder) :
       StageCheckpoint(StageOrder[k]) \in Range(progressLog) =>
         \/ <<"ret", StageOrder[k]>> \in Range(stageLog)
         \/ StageOrder[k] = "publish" /\ ~Requested
  /\ pc \in {"p25", "p50", "p75", "p90"} =>
       /\ Len(stageLog) > 0
       /\ stageLog[Len(stageLog)][1] = "ret" \/ (pc = "p90" /\ ~Requested)

C3_Witness ==
  /\ Completed
  /\ stageLog = << <<"call", "script">>, <<"ret", "script">>,
                   <<"call", "media">>, <<"ret", "media">>,
                   <<"call", "assemble">>, <<"ret", "assemble">>,
                   <<"call", "publish">>, <<"ret", "publish">> >>
  /\ progressLog = Checkpoints

(***************************************************************************)
(* C4: when the script, media or assembly stage call throws, the attempt   *)
(* rejects with that same error: no later stage is called, no further      *)
(* progress value is reported, no result is returned, and the queue        *)
(* records the attempt as failed with that error.                          *)
(***************************************************************************)
LastEvent == stageLog[Len(stageLog)]
StageFailed == Len(stageLog) > 0 /\ LastEvent[1] = "throw"

LogUpToThrow(stage) ==
  CASE stage = "script" ->
         << <<"call", "script">>, <<"throw", "script">> >>
    [] stage = "media" ->
         << <<"call", "script">>, <<"ret", "script">>,
            <<"call", "media">>, <<"throw", "media">> >>
    [] stage = "assemble" ->
         << <<"call", "script">>, <<"ret", "script">>,
            <<"call", "media">>, <<"ret", "media">>,
            <<"call", "assemble">>, <<"throw", "assemble">> >>

ProgressUpToThrow(stage) ==
  CASE stage = "script" -> <<10>>
    [] stage = "media" -> <<10, 25>>
    [] stage = "assemble" -> <<10, 25, 50>>

C4_StageErrorPropagates ==
  StageFailed =>
    /\ LastEvent[2] \in {"script", "media", "assemble"}
    /\ stageLog = LogUpToThrow(LastEvent[2])
    /\ progressLog = ProgressUpToThrow(LastEvent[2])
    /\ thrown # None
    /\ returnvalue = None
    /\ \/ qstate = "active" /\ pc = "catch"
       \/ /\ qstate \in {"delayed", "waiting", "failed"}
          /\ pc = "idle"
          /\ failedReason = thrown

C4_Witness ==
  /\ qstate = "delayed"
  /\ stageLog = LogUpToThrow("assemble")
  /\ thrown = "ffmpeg failed: mux"
  /\ failedReason = "ffmpeg failed: mux"
  /\ progressLog = <<10, 25, 50>>

(***************************************************************************)
(* C5: in one attempt uploadToSocial is called at most once, only after    *)
(* assembleVideo has returned, and by the time 90 is reported it has been  *)
(* called if and only if uploadToYoutube or uploadToTiktok is true; when   *)
(* neither is true the result's uploadUrls is empty and the progress still *)
(* goes on to 90 and 100.                                                  *)
(***************************************************************************)
C5_PublishIffRequested ==
  /\ Calls("publish") <= 1
  /\ Calls("publish") = 1 =>
       /\ Requested
       /\ Len(stageLog) >= 7
       /\ stageLog[6] = <<"ret", "assemble">>
       /\ stageLog[7] = <<"call", "publish">>
  /\ 90 \in Range(progressLog) => (Calls("publish") = 1 <=> Requested)
  /\ (Completed /\ ~Requested) =>
       /\ Calls("publish") = 0
       /\ returnvalue.uploadUrls = EmptyUrls
       /\ progressLog[5] = 90
       /\ progressLog[6] = 100

C5_Witness ==
  /\ Completed
  /\ data.uploadToYoutube = "undefined"
  /\ data.uploadToTiktok = "true"
  /\ Calls("publish") = 1
  /\ progressLog = Checkpoints

(***************************************************************************)
(* C6: uploadToSocial attempts every requested platform whatever happened  *)
(* to the other one and never throws: uploadUrls has a key for a platform  *)
(* exactly when the upload to that platform succeeded, and after it        *)
(* returned the attempt goes on to report 90 and 100 and to complete.      *)
(***************************************************************************)
C6_PlatformsIndependent ==
  /\ <<"throw", "publish">> \notin Range(stageLog)
  /\ <<"ret", "publish">> \in Range(stageLog) =>
       /\ platformResult.youtube = "none" <=> ~Truthy(data.uploadToYoutube)
       /\ platformResult.tiktok = "none" <=> ~Truthy(data.uploadToTiktok)
       /\ "youtube" \in DOMAIN uploadUrls <=> platformResult.youtube = "ok"
       /\ "tiktok" \in DOMAIN uploadUrls <=> platformResult.tiktok = "ok"
       /\ qstate \in {"active", "completed"}
       /\ pc \in {"p90", "p100", "return", "idle"}
  /\ Completed => returnvalue.uploadUrls = uploadUrls

C6_Witness ==
  /\ Completed
  /\ platformResult = [youtube |-> "failed", tiktok |-> "ok"]
  /\ DOMAIN returnvalue.uploadUrls = {"tiktok"}

(***************************************************************************)
(* C7: the job is added with attempts 3 and exponential backoff starting   *)
(* at 5000 ms: the handler is executed at most 3 times, an execution       *)
(* starts only when every earlier one has failed, and after the third      *)
(* failure the job is failed for good and is never executed again.         *)
(***************************************************************************)
C7_RetryState ==
  /\ executions <= 3
  /\ qstate = "active" => attemptsMade = executions - 1
  /\ qstate \in {"waiting", "delayed", "failed"} => attemptsMade = executions
  /\ qstate = "delayed" =>
       /\ attemptsMade \in {1, 2}
       /\ backoffDelay = IF attemptsMade = 1 THEN 5000 ELSE 10000
  /\ qstate = "failed" => executions = 3 /\ pc = "idle"

C8_EventuallyTerminal == (qstate = "waiting") ~> Terminal

(***************************************************************************)
(* C9: every external call of a job (HTTP request to a script or image     *)
(* provider, spawned edge-tts / ffmpeg / ffprobe) is bounded by a timeout: *)
(* a call that never answers is observed as a failure of that call.        *)
(***************************************************************************)
ProviderHttpKinds == {"gemini", "hf-post", "horde-submit", "horde-check",
                      "horde-status", "horde-download", "replicate-run",
                      "replicate-download"}
SubprocessKinds == {"edge-tts", "ffmpeg-silent", "ffmpeg-convert",
                    "ffmpeg-placeholder", "ffmpeg-concat", "ffprobe-audio",
                    "ffprobe-video", "ffmpeg-trim", "ffprobe-loop",
                    "ffmpeg-loop", "ffmpeg-mux"}
ProviderAndSubprocessKinds == ProviderHttpKinds \cup SubprocessKinds

C9_EveryCallBounded ==
  (call.kind \in ProviderAndSubprocessKinds /\ call.answer = "never") =>
    Outcomes(call) = {"fail"}

(***************************************************************************)
(* C10: without a Gemini key, generateScript makes no call to the text     *)
(* generation service and resolves with the fallback script.               *)
(***************************************************************************)
C10_UnconfiguredScriptResolves ==
  ~cfg.genAI =>
    /\ call.kind # "gemini"
    /\ <<"throw", "script">> \notin Range(stageLog)
    /\ <<"ret", "script">> \in Range(stageLog) =>
         scriptData = createFallbackScript(data.prompt)

(***************************************************************************)
(* C11: generateScript never rejects: whatever the text generation service *)
(* answers and whether or not the script can be saved to the debug         *)
(* directory, with or without a Gemini key, the call returns a ScriptData. *)
(***************************************************************************)
ScriptRejected ==
  \E i \in 1..Len(stageLog) : stageLog[i] = <<"throw", "script">>
ScriptReturned ==
  \E i \in 1..Len(stageLog) : stageLog[i] = <<"ret", "script">>

C11_ScriptNeverRejects ==
  /\ ~ScriptRejected
  /\ ScriptReturned => scriptData # NoScript

(***************************************************************************)
(* C12: every ScriptData that generateScript returned has a narration that *)
(* is a non-empty string, at least one visual prompt and at least one      *)
(* timestamp segment.                                                      *)
(***************************************************************************)
WellFormed(sd) ==
  /\ sd.script.type = "string"
  /\ sd.script.text # <<>>
  /\ Len(sd.visual_prompts) >= 1
  /\ Len(sd.timestamps) >= 1

C12_ScriptWellFormed == ScriptReturned => WellFormed(scriptData)

(***************************************************************************)
(* C13: for every prompt the fallback script has exactly 3 visual prompts  *)
(* with the indexes 0, 1, 2 in that order, each of duration 10, with       *)
(* pairwise different descriptors, and exactly 3 timestamp segments that   *)
(* cover [0,10), [10,20), [20,30); the narration contains the prompt.      *)
(***************************************************************************)
Contains(text, sub) ==
  \E i \in 1..(Len(text) - Len(sub) + 1) :
    SubSeq(text, i, i + Len(sub) - 1) = sub

Contiguous(timestamps) ==
  /\ \A i \in 1..Len(timestamps) : timestamps[i].end > timestamps[i].start
  /\ \A i \in 2..Len(timestamps) :
       timestamps[i].start = timestamps[i - 1].end

C13_FallbackShape ==
  (eval.fn = "createFallbackScript" /\ eval.applied) =>
    LET sd == eval.ret IN
    /\ Len(sd.visual_prompts) = 3
    /\ \A i \in 1..3 : /\ sd.visual_prompts[i].index = i - 1
                        /\ sd.visual_prompts[i].duration = 10
    /\ \A i, j \in 1..3 :
         i # j => sd.visual_prompts[i].prompt # sd.visual_prompts[j].prompt
    /\ Len(sd.timestamps) = 3
    /\ Contiguous(sd.timestamps)
    /\ sd.timestamps[1].start = 0
    /\ sd.timestamps[3].end = 30
    /\ \A i \in 1..3 : /\ sd.timestamps[i].start = 10 * (i - 1)
                        /\ sd.timestamps[i].end = 10 * i
    /\ sd.script.type = "string"
    /\ Contains(sd.script.text, eval.arg)

C13_Witness ==
  /\ eval.fn = "createFallbackScript"
  /\ eval.applied
  /\ eval.arg = <<"a", "'", ":">>
  /\ Len(eval.ret.visual_prompts) = 3
  /\ eval.ret.timestamps[3].end = 30

(***************************************************************************)
(* C14: when generateMedia has returned for a script with N visual         *)
(* prompts, videoPaths has exactly N entries and entry k is the clip path  *)
(* of the k-th visual prompt, whichever clips came from a provider and     *)
(* whichever are placeholders; while the loop runs, the entries pushed so  *)
(* far are the clip paths of the first prompts, in order.                  *)
(***************************************************************************)
ClipPaths(sd, n) == [k \in 1..n |-> ClipFile(sd.visual_prompts[k].index)]
MediaReturned ==
  \E i \in 1..Len(stageLog) : stageLog[i] = <<"ret", "media">>

C14_ClipPathsInCueOrder ==
  /\ MediaReturned =>
       mediaFiles.videoPaths =
         ClipPaths(scriptData, Len(scriptData.visual_prompts))
  /\ Len(videoPaths) <= Len(scriptData.visual_prompts)
  /\ videoPaths = ClipPaths(scriptData, Len(videoPaths))

C14_Witness ==
  /\ pc = "p50"
  /\ cfg.imageProvider = "replicate"
  /\ Len(scriptData.visual_prompts) = 3
  /\ mediaFiles.videoPaths = <<ClipFile(0), ClipFile(1), ClipFile(2)>>

(***************************************************************************)
(* C15: a failure while the clip of one visual prompt is generated never   *)
(* fails the media stage: when a provider step fails (request failure,     *)
(* timeout, malformed response, failed conversion of the image) or no      *)
(* provider is configured, the prompt gets its placeholder clip, and the   *)
(* loop goes on with the next prompt.                                      *)
(***************************************************************************)
ProviderAwaits ==
  {"hf_await", "replicate_run_await", "replicate_download_await",
   "horde_submit_await", "horde_sleep", "horde_check_await",
   "horde_status_await", "horde_download_await", "convert_await"}
ClipAwaits == ProviderAwaits \cup {"placeholder_await"}

(* A provider step that pushes no clip stays with the same prompt.         *)
ProviderFailureDegrades ==
  (pc \in ProviderAwaits /\ videoPaths' = videoPaths) =>
    /\ pc' \in ClipAwaits
    /\ cue' = cue
    /\ qstate' = "active"

(* A pushed clip is the clip of the current prompt; the next prompt, or    *)
(* generateSubtitles after the last one, follows.                          *)
NextCueProcessed ==
  (pc \in ClipAwaits /\ videoPaths' # videoPaths) =>
    /\ videoPaths' =
         Append(videoPaths, ClipFile(scriptData.visual_prompts[cue].index))
    /\ cue < Len(scriptData.visual_prompts) =>
         /\ cue' = cue + 1
         /\ pc' \in ClipAwaits
    /\ cue = Len(scriptData.visual_prompts) =>
         pc' = "p50" \/ thrown' = "writeFileSync failed"

(* No step of the loop makes generateMedia reject (the subtitle file is    *)
(* written after the loop).                                                *)
ClipStepNeverFatal ==
  (pc \in ClipAwaits /\ pc' = "catch") => thrown' = "writeFileSync failed"

ClipStepFatalOnlyByPlaceholder ==
  (pc \in ClipAwaits /\ pc' = "catch") =>
    \/ thrown' = "writeFileSync failed"
    \/ /\ pc = "placeholder_await"
       /\ inCatch
       /\ thrown' = "ffmpeg failed: placeholder"

AudioAwaits == {"audio_await", "silent_await"}

AudioFallsBack ==
  pc \in AudioAwaits =>
    \/ pc = "audio_await" /\ pc' = "silent_await" /\ audioPath' = audioPath
    \/ pc' \in ClipAwaits /\ audioPath' = AudioFile

SilentAudioFatal ==
  /\ pc = "silent_await"
  /\ pc' = "catch"
  /\ thrown' = "ffmpeg failed: silent audio"
  /\ audioPath' = audioPath

IsCeil(n, a, b) == n * b >= a /\ (n - 1) * b < a

C17_TrimOrLoop ==
  /\ (pc = "trim_await" \/ loopedVideoPath = TrimmedFile) =>
       /\ videoDuration > 0 /\ audioDuration > 0
       /\ videoDuration >= audioDuration
       /\ loopCount = 0
  /\ pc = "loop_probe_await" =>
       /\ videoDuration > 0 /\ audioDuration > 0
       /\ videoDuration < audioDuration
  /\ (pc = "loop_await" \/ loopedVideoPath = LoopedFile) =>
       /\ videoDuration < audioDuration
       /\ IsCeil(loopCount, audioDuration, videoDuration)
       /\ loopCount >= 2
       /\ loopCount - 1 >= 1

C17_Witness ==
  /\ pc = "loop_await"
  /\ audioDuration = 3
  /\ videoDuration = 2
  /\ loopCount = 2

(***************************************************************************)
(* C18: when both probes and the trim or loop step succeeded, the video    *)
(* handed to the mux step has exactly the duration of the audio: the       *)
(* trimmed source is at least as long as the audio, and so is the looped   *)
(* source, loopCount x videoDuration.                                      *)
(***************************************************************************)
C18_ReconciledDuration ==
  /\ loopedVideoPath = TrimmedFile => videoDuration >= audioDuration
  /\ loopedVideoPath = LoopedFile =>
       StreamLoop(loopCount - 1, videoDuration) >= audioDuration
  /\ loopedVideoPath \in {TrimmedFile, LoopedFile} =>
       reconciledDuration = audioDuration

C18_Witness ==
  /\ loopedVideoPath = LoopedFile
  /\ audioDuration = 3
  /\ videoDuration = 2
  /\ reconciledDuration = 3
  /\ pc = "mux_await"

(***************************************************************************)
(* C19: when a probe of the audio or of the video fails at any point of    *)
(* the reconciliation step, reconciliation is skipped and assembly does    *)
(* not fail: the mux step is started on the concatenated video.            *)
(***************************************************************************)
CallFailed ==
  /\ call.kind # "none"
  /\ Outcomes(call) # {}
  /\ Outcomes(call) \subseteq {"fail", "faulted", "nourl", "empty"}

ProbeAwaits == {"probe_audio_await", "probe_video_await", "loop_probe_await"}

ProbeFailureSkips ==
  (pc \in ProbeAwaits /\ CallFailed /\ pc' # pc) =>
    /\ pc' = "mux_await"
    /\ call'.kind = "ffmpeg-mux"
    /\ loopedVideoPath' = ConcatenatedFile
    /\ qstate' = "active"

C19_ProbeFailureSkips == [][ProbeFailureSkips]_vars

(***************************************************************************)
(* C20: when the concatenate step or the mux step fails, assembleVideo     *)
(* rejects with that error: no output path is returned and nothing is      *)
(* substituted, the handler rethrows it and the attempt fails with it.     *)
(***************************************************************************)
FatalSteps == {"ffmpeg-concat", "ffmpeg-mux"}
FatalError(kind) ==
  IF kind = "ffmpeg-concat" THEN "ffmpeg failed: concatenate"
  ELSE "ffmpeg failed: mux"

FatalStepRejects ==
  (call.kind \in FatalSteps /\ CallFailed /\ pc' # pc) =>
    /\ pc' = "catch"
    /\ thrown' = FatalError(call.kind)
    /\ finalVideoPath' = None
    /\ stageLog' = Append(stageLog, <<"throw", "assemble">>)

RejectionPropagates ==
  (pc = "catch" /\ pc' # pc) =>
    /\ qstate' \in {"delayed", "failed"}
    /\ failedReason' = thrown
    /\ returnvalue' = None

C20_ConcatAndMuxFatal == [][FatalStepRejects /\ RejectionPropagates]_vars

C20_Witness ==
  /\ qstate = "delayed"
  /\ thrown = "ffmpeg failed: concatenate"
  /\ failedReason = "ffmpeg failed: concatenate"
  /\ finalVideoPath = None
  /\ returnvalue = None

(***************************************************************************)
(* C25: every stage is safely re-runnable for the same jobId: in a retried *)
(* or redelivered attempt, with files of an earlier attempt still in the   *)
(* temp directory, a tool run that the outside world lets succeed does     *)
(* succeed and yields the same output path as on a first run.              *)
(***************************************************************************)
RerunSucceeds ==
  (executions > 1 /\ call.answer = "ok" /\ pc' # pc) =>
    /\ pc = "silent_await" => audioPath' = AudioFile /\ pc' # "catch"
    /\ pc = "placeholder_await" =>
         videoPaths' = Append(videoPaths,
                              ClipFile(scriptData.visual_prompts[cue].index))
    /\ pc = "concat_await" => pc' = "probe_audio_await"
    /\ pc = "trim_await" => loopedVideoPath' = TrimmedFile
    /\ pc = "loop_await" => loopedVideoPath' = LoopedFile
    /\ pc = "mux_await" => finalVideoPath' = OutputFile

C25_StagesRerunnable == [][RerunSucceeds]_vars

(***************************************************************************)
(* C21: before the subtitle path is placed in the subtitle-filter argument *)
(* of the mux command, every backslash of the path becomes a doubled       *)
(* backslash and every colon is preceded by a backslash; a path without    *)
(* backslashes and colons is passed unchanged.                             *)
(***************************************************************************)
RECURSIVE Escaped(_)
Escaped(path) ==
  IF path = <<>> THEN <<>>
  ELSE (CASE Head(path) = "\\" -> <<"\\", "\\">>
          [] Head(path) = ":" -> <<"\\", ":">>
          [] OTHER -> <<Head(path)>>) \o Escaped(Tail(path))

C21_SubtitlePathEscaped ==
  (eval.fn = "escapedSubtitlePath" /\ eval.applied) =>
    /\ eval.ret = Escaped(eval.arg)
    /\ (\A i \in 1..Len(eval.arg) : eval.arg[i] \notin {"\\", ":"}) =>
         eval.ret = eval.arg

(***************************************************************************)
(* C22: for every time >= 0 in whole milliseconds, formatSrtTime returns   *)
(* exactly two digits, `:', two digits, `:', two digits, `,', three        *)
(* digits, with minutes and seconds in 00..59 and milliseconds in          *)
(* 000..999.                                                               *)
(***************************************************************************)
IsDigit(ch) == \E d \in 1..10 : DigitChars[d] = ch
DigitValue(ch) == (CHOOSE d \in 1..10 : DigitChars[d] = ch) - 1

RECURSIVE Value(_)
Value(digits) ==
  IF digits = <<>> THEN 0
  ELSE 10 * Value(SubSeq(digits, 1, Len(digits) - 1))
         + DigitValue(digits[Len(digits)])

\* the last ten characters are :MM:SS,mmm
TailShape(t) ==
  LET n == Len(t) IN
  /\ n >= 10
  /\ t[n - 9] = ":" /\ t[n - 6] = ":" /\ t[n - 3] = ","
  /\ \A i \in {n - 8, n - 7, n - 5, n - 4, n - 2, n - 1, n} : IsDigit(t[i])
  /\ Value(SubSeq(t, n - 8, n - 7)) \in 0..59
  /\ Value(SubSeq(t, n - 5, n - 4)) \in 0..59
  /\ Value(SubSeq(t, n - 2, n)) \in 0..999

C22_SrtTimeShape ==
  (eval.fn = "formatSrtTime" /\ eval.applied) =>
    /\ Len(eval.ret) = 12
    /\ IsDigit(eval.ret[1]) /\ IsDigit(eval.ret[2])
    /\ TailShape(eval.ret)

(***************************************************************************)
(* C22, amended: the hours field has exactly two digits for times below    *)
(* one hundred hours and as many digits as the number of hours needs, and  *)
(* no leading zero, from one hundred hours on; the rest of the shape is    *)
(* as stated.                                                              *)
(***************************************************************************)
HundredHours == 100 * 3600000

C22_SrtTimeShapeBelowHundredHours ==
  (eval.fn = "formatSrtTime" /\ eval.applied) =>
    LET t == eval.ret
        hh == SubSeq(t, 1, Len(t) - 10) IN
    /\ TailShape(t)
    /\ \A i \in 1..Len(hh) : IsDigit(hh[i])
    /\ eval.arg < HundredHours => Len(hh) = 2
    /\ eval.arg >= HundredHours => Len(hh) > 2 /\ hh[1] # "0"

C22_Witness ==
  /\ eval.fn = "formatSrtTime"
  /\ eval.applied
  /\ eval.arg = 359999999
  /\ eval.ret = <<"9", "9", ":", "5", "9", ":", "5", "9", ",", "9", "9", "9">>

C24_SrtBlocks ==
  (eval.fn = "generateSubtitles" /\ eval.applied) =>
    LET cues == eval.arg
        lines == eval.ret IN
    /\ Len(lines) = 4 * Len(cues)
    /\ \A i \in 1..Len(cues) :
         /\ lines[4 * i - 3] = <<DigitChars[i + 1]>>
         /\ lines[4 * i - 2] = formatSrtTime(cues[i].start) \o <<" --> ">>
                                 \o formatSrtTime(cues[i].end)
         /\ lines[4 * i - 1] = <<cues[i].text>>
         /\ lines[4 * i] = <<>>

\* two cues, the second overlapping the first
C24_Witness ==
  /\ eval.fn = "generateSubtitles"
  /\ eval.applied
  /\ Len(eval.arg) = 2
  /\ eval.arg[1].start = 0 /\ eval.arg[1].end = 10000
  /\ eval.arg[2].start = 1500 /\ eval.arg[2].end = 1500
  /\ Len(eval.ret) = 8
  /\ eval.ret[5] = <<"2">>

(***************************************************************************)
(* C29: when publishing is requested, uploadToSocial is called with the    *)
(* final video path; the given title, or `AI Generated Video: <prompt>'    *)
(* when none is given; the given description, or `This video was           *)
(* automatically generated about: <prompt>' when none is given; the tags   *)
(* string split at every comma with each piece trimmed, or AI, Generated,  *)
(* Video when none is given; and the two platform flags as booleans, an    *)
(* absent flag as false.  A field that is absent or the empty string is    *)
(* not given.                                                              *)
(***************************************************************************)
Given(v) == v.type = "string" /\ v.text # <<>>

Commas(text) == {i \in 1..Len(text) : text[i] = ","}

\* the k-th stretch of text between two commas, or a comma and an end
Stretch(text, k) ==
  LET bounds == Commas(text) \cup {0, Len(text) + 1}
      from == CHOOSE i \in bounds :
                Cardinality({j \in bounds : j < i}) = k - 1
      to == CHOOSE i \in bounds : Cardinality({j \in bounds : j < i}) = k
  IN SubSeq(text, from + 1, to - 1)

IsTrimOf(piece, text) ==
  \E i \in 1..(Len(text) + 1), j \in 0..Len(text) :
    /\ piece = SubSeq(text, i, j)
    /\ \A k \in 1..(i - 1) : text[k] = " "
    /\ \A k \in (j + 1)..Len(text) : text[k] = " "
    /\ piece # <<>> => piece[1] # " " /\ piece[Len(piece)] # " "

C29_UploadArguments ==
  (eval.fn = "uploadToSocialArguments" /\ eval.applied) =>
    LET d == eval.arg
        a == eval.ret
        requested == d.uploadToYoutube = "true" \/ d.uploadToTiktok = "true"
    IN
    /\ a.called = requested
    /\ requested =>
         /\ a.videoPath = OutputFile
         /\ a.title = IF Given(d.title) THEN d.title.text
                      ELSE <<"AI Generated Video: ">> \o d.prompt
         /\ a.description =
              IF Given(d.description) THEN d.description.text
              ELSE <<"This video was automatically generated about: ">>
                     \o d.prompt
         /\ ~Given(d.tags) =>
              a.tags = << <<"AI">>, <<"Generated">>, <<"Video">> >>
         /\ Given(d.tags) =>
              /\ Len(a.tags) = Cardinality(Commas(d.tags.text)) + 1
              /\ \A k \in 1..Len(a.tags) :
                   IsTrimOf(a.tags[k], Stretch(d.tags.text, k))
         /\ a.uploadToYoutube \in {"true", "false"}
         /\ a.uploadToTiktok \in {"true", "false"}
         /\ a.uploadToYoutube = "true" <=> d.uploadToYoutube = "true"
         /\ a.uploadToTiktok = "true" <=> d.uploadToTiktok = "true"

C29_Witness ==
  /\ eval.fn = "uploadToSocialArguments"
  /\ eval.applied
  /\ eval.arg.tags = Str(<<" ", "x", ",">>)
  /\ eval.arg.title = Undefined
  /\ eval.arg.uploadToYoutube = "undefined"
  /\ eval.arg.uploadToTiktok = "true"
  /\ eval.ret.called
  /\ eval.ret.tags = << <<"x">>, <<>> >>
  /\ eval.ret.uploadToYoutube = "false"

(***************************************************************************)
(* C26: any two submit calls produce different jobIds, so that no file of  *)
(* one job has the path of a file of another job.                          *)
(***************************************************************************)
C26_JobIdsDiffer ==
  (eval.fn = "generateVideo" /\ eval.applied) =>
    /\ eval.ret[1] # eval.ret[2]
    /\ \A s1, s2 \in Suffixes :
         TempFileName(eval.ret[1], s1) # TempFileName(eval.ret[2], s2)

(***************************************************************************)
(* C30: cleanupTemp(jobId) deletes exactly the files of the temp directory *)
(* whose name starts with `<jobId>_': the files of that job are deleted,   *)
(* the files of every other job and every other file are left; when no     *)
(* file matches nothing is deleted.                                        *)
(***************************************************************************)
C30_CleanupScoped ==
  (eval.fn = "cleanupTemp" /\ eval.applied) =>
    LET before == eval.arg.files
        after == eval.ret
        own == {TempFileName(eval.arg.jobId, sfx) : sfx \in Suffixes} IN
    /\ after \subseteq before
    /\ \A id \in JobIds, sfx \in Suffixes :
         TempFileName(id, sfx) \in before =>
           (TempFileName(id, sfx) \in after <=> id # eval.arg.jobId)
    /\ ForeignFile \in before => ForeignFile \in after
    /\ after = before \ own
    /\ before \cap own = {} => after = before

\* the directory holds a file of the job and a file of a job whose id
\* starts with the job's id
C30_Witness ==
  /\ eval.fn = "cleanupTemp"
  /\ eval.applied
  /\ eval.arg.jobId = jobId([now |-> 1, random |-> <<"0">>])
  /\ eval.arg.files =
       {TempFileName(jobId([now |-> 1, random |-> <<"0">>]), <<"a">>),
        TempFileName(jobId([now |-> 1, random |-> <<"0", "0">>]), <<"a">>)}
  /\ eval.ret =
       {TempFileName(jobId([now |-> 1, random |-> <<"0", "0">>]), <<"a">>)}

(***************************************************************************)
(* C27: a status query returns, for an existing queue job, its current     *)
(* state, the latest progress value the handler reported and the result,   *)
(* and the result is non-null only when the job is completed; for a queue  *)
(* job id that does not exist it returns {error: 'Job not found'} and no   *)
(* state, progress or result.                                              *)
(***************************************************************************)
JobExists(id) == id = QueueJobId /\ qstate # None

StatusOfJob ==
  \A id \in QueueJobIds :
    LET status == getJobStatus(id) IN
    IF JobExists(id)
    THEN /\ DOMAIN status = {"jobId", "state", "progress", "result"}
         /\ status.jobId = id
         /\ status.state = qstate
         /\ progressLog # <<>> =>
              status.progress = progressLog[Len(progressLog)]
         /\ executions = 0 => status.progress = 0
         /\ status.state # "completed" => status.result = None
         /\ status.state = "completed" => status.result = Result
    ELSE /\ DOMAIN status = {"error"}
         /\ status.error = "Job not found"

\* the progress a query sees changes only when the handler reports a value
ProgressIsReported ==
  progress' # progress =>
    /\ progressLog' = Append(progressLog, progress')
    /\ getJobStatus(QueueJobId).progress' = progress'

C27_StatusQuery == []StatusOfJob /\ [][ProgressIsReported]_vars

\* a retried attempt is running: the query still shows the progress of the
\* failed attempt, and no result
C27_Witness ==
  /\ qstate = "active"
  /\ executions = 2
  /\ progressLog = <<>>
  /\ getJobStatus("1").progress = 50
  /\ getJobStatus("1").result = None
  /\ DOMAIN getJobStatus("2") = {"error"}

(***************************************************************************)
(* C28: with every capability unconfigured (no script key, no image        *)
(* provider, narration synthesis failing, no upload requested) and the     *)
(* local media tool working (every ffmpeg and ffprobe run succeeds and the *)
(* temp directory can be written), the first attempt of a job never fails; *)
(* and when it is completed the script is the fallback script whose        *)
(* narration contains the prompt, the media stage yielded exactly the 3    *)
(* placeholder clip paths and the silent-audio path, and a final video     *)
(* path is returned.                                                       *)
(***************************************************************************)
Unconfigured ==
  /\ ~cfg.genAI
  /\ cfg.imageProvider = "none"
  /\ ~Truthy(data.uploadToYoutube)
  /\ ~Truthy(data.uploadToTiktok)

\* edge-tts fails, so the silent audio is created with no audio file there
NarrationUnavailable ==
  /\ call.kind = "edge-tts" => call.answer = "fail"
  /\ pc = "silent_await" => <<AudioFile>> \notin tempDir

LocalToolWorks == call.kind \notin {"none", "edge-tts"} => call.answer = "ok"

FirstAttemptNeverFails ==
  (/\ Unconfigured
   /\ executions = 1
   /\ NarrationUnavailable
   /\ LocalToolWorks
   /\ pc' # pc) =>
    \/ pc' # "catch"
    \/ thrown' = "writeFileSync failed"

UnconfiguredResult ==
  (Unconfigured /\ executions = 1 /\ qstate = "completed") =>
    /\ failedReason = None
    /\ returnvalue.success
    /\ returnvalue.scriptData = createFallbackScript(data.prompt)
    /\ Contains(returnvalue.scriptData.script.text, data.prompt)
    /\ mediaFiles.videoPaths = <<ClipFile(0), ClipFile(1), ClipFile(2)>>
    /\ mediaFiles.audioPath = AudioFile
    /\ returnvalue.finalVideoPath = OutputFile
    /\ returnvalue.uploadUrls = EmptyUrls

C28_UnconfiguredJobCompletes ==
  [][FirstAttemptNeverFails]_vars /\ []UnconfiguredResult

(***************************************************************************)
(* C31: every ScriptData that generateScript returns has been saved as     *)
(* `<jobId>_script.json' before the call returns, on every path            *)
(* (unconfigured fallback, successful generation, parse-failure fallback,  *)
(* request-failure fallback).  The catch block of generateScript returns   *)
(* createFallbackScript(prompt) without calling saveToDebug, so the        *)
(* script returned after a failed request has not been saved.              *)
(***************************************************************************)
C31_ReturnedScriptSaved == ScriptReturned => debugScript = scriptData

(***************************************************************************)
(* C32: assembleVideo runs concatenate, then reconcile, then mux, each     *)
(* started only after the previous one has completed; mux receives the     *)
(* path that reconcile produced (the trimmed file, the looped file, or the *)
(* unchanged concatenated file), and assembleVideo returns                 *)
(* `<jobId>_output.mp4' only after mux has completed successfully.         *)
(***************************************************************************)
ReconcileKinds ==
  {"ffprobe-audio", "ffprobe-video", "ffmpeg-trim", "ffprobe-loop",
   "ffmpeg-loop"}

Started(kinds) == call'.kind \in kinds /\ call.kind \notin kinds

ReconciledPath ==
  CASE call.kind = "ffmpeg-trim" /\ Outcomes(call) = {"ok"} -> TrimmedFile
    [] call.kind = "ffmpeg-loop" /\ Outcomes(call) = {"ok"} -> LoopedFile
    [] call.kind \in {"ffprobe-audio", "ffprobe-video"}
       /\ Outcomes(call) = {"fail"} -> ConcatenatedFile
    [] OTHER -> None

AssembleStepsInOrder ==
  /\ Started({"ffmpeg-concat"}) =>
       /\ pc = "assemble"
       /\ call = NoCall
       /\ stageLog' = Append(stageLog, <<"call", "assemble">>)
  /\ Started(ReconcileKinds) =>
       /\ call.kind = "ffmpeg-concat"
       /\ Outcomes(call) = {"ok"}
       /\ call'.kind = "ffprobe-audio"
  /\ Started({"ffmpeg-mux"}) =>
       /\ call.kind \in ReconcileKinds
       /\ ReconciledPath # None
       /\ loopedVideoPath' = ReconciledPath
  /\ finalVideoPath' \notin {finalVideoPath, None} =>
       /\ call.kind = "ffmpeg-mux"
       /\ Outcomes(call) = {"ok"}
       /\ finalVideoPath' = OutputFile
       /\ stageLog' = Append(stageLog, <<"ret", "assemble">>)
  /\ stageLog' = Append(stageLog, <<"ret", "assemble">>) =>
       finalVideoPath' = OutputFile

C32_AssembleOrder == [][AssembleStepsInOrder]_vars

C32_Witness ==
  /\ finalVideoPath = OutputFile
  /\ loopedVideoPath = TrimmedFile
  /\ qstate = "completed"

(***************************************************************************)
(* C33: within one job the clips of two different visual cues are written  *)
(* to two different file paths, for every ScriptData that generateScript   *)
(* can return, so that videoPaths never contains the same path twice.  The *)
(* clip path is built from the cue's index field, which comes from the     *)
(* script; validateScriptData accepts a script of the external service     *)
(* whose cues share an index.                                              *)
(***************************************************************************)
C33_ClipPathsDistinct ==
  \A i, j \in 1..Len(videoPaths) : i # j => videoPaths[i] # videoPaths[j]

(***************************************************************************)
(* C34: the text burned into a placeholder clip is built from at most the  *)
(* first 50 characters of the cue's descriptor, and every character of it  *)
(* that is special to the text-overlay filter argument (colon, backslash,  *)
(* and the single quote that delimits the text) is escaped; the            *)
(* placeholder's duration is the cue's duration.  Read from left to right, *)
(* a backslash of the text escapes the character after it; the text is     *)
(* literal when no colon and no quote is left unescaped, and what it       *)
(* spells is then the descriptor's first 50 characters.                    *)
(***************************************************************************)
RECURSIVE OverlayLiteral(_)
OverlayLiteral(text) ==
  IF text = <<>> THEN TRUE
  ELSE IF Head(text) = "\\"
       THEN Len(text) >= 2 /\ OverlayLiteral(Tail(Tail(text)))
       ELSE Head(text) \notin {":", "'"} /\ OverlayLiteral(Tail(text))

RECURSIVE Unescape(_)
Unescape(text) ==
  IF text = <<>> THEN <<>>
  ELSE IF Head(text) = "\\" /\ Len(text) >= 2
       THEN <<text[2]>> \o Unescape(Tail(Tail(text)))
       ELSE <<Head(text)>> \o Unescape(Tail(text))

FirstChars(text, n) == SubSeq(text, 1, IF Len(text) < n THEN Len(text) ELSE n)

C34_PlaceholderTextEscaped ==
  (eval.fn = "createPlaceholderVideo" /\ eval.applied) =>
    /\ OverlayLiteral(eval.ret.text)
    /\ Unescape(eval.ret.text) = FirstChars(eval.arg.prompt, 50)
    /\ eval.arg.duration > 0 => eval.ret.duration = eval.arg.duration

(***************************************************************************)
(* C35: the fallback script is a deterministic function of the prompt      *)
(* alone: every generateScript call that takes a fallback path returns     *)
(* createFallbackScript of the job's prompt, in whichever execution of the *)
(* handler (jobId, time) and for whichever reason (no API key, request     *)
(* failure, unparseable response); so two such calls with the same prompt  *)
(* return equal ScriptData.                                                *)
(***************************************************************************)
ScriptReturnsNow == stageLog' = Append(stageLog, <<"ret", "script">>)
                    \/ stageLog' = stageLog \o << <<"call", "script">>,
                                                  <<"ret", "script">> >>

FallbackReasons == {"fail", "null", "garbage"}

FallbackPathTaken ==
  /\ ScriptReturnsNow
  /\ \/ ~cfg.genAI
     \/ Outcomes(call) \subseteq FallbackReasons
     \/ debugScript' = NoScript

FallbackOfPromptAlone ==
  FallbackPathTaken => scriptData' = createFallbackScript(data.prompt)

C35_FallbackDeterministic == [][FallbackOfPromptAlone]_vars

C35_Witness ==
  /\ executions = 2
  /\ cfg.genAI
  /\ pc = "p25"
  /\ debugScript = NoScript
  /\ scriptData = createFallbackScript(data.prompt)

(***************************************************************************)
(* C36: each handler attempt of a job starts again at the script stage: a  *)
(* retry re-runs script and media generation and reuses no result of the   *)
(* earlier attempt, and the returned result describes the successful       *)
(* attempt only.  A new execution starts with fresh locals; scriptData is  *)
(* only ever set by a return of generateScript in the running execution    *)
(* and a clip path is only added when the tool has just written the clip;  *)
(* the result of a completed job is made of the locals of the execution    *)
(* that returned, which ran all of script, media and assembly.             *)
(***************************************************************************)
AttemptStartsAfresh ==
  executions' # executions =>
    /\ executions' = executions + 1
    /\ pc' = "start"
    /\ scriptData' = NoScript
    /\ audioPath' = None
    /\ videoPaths' = <<>>
    /\ mediaFiles' = NoMedia
    /\ finalVideoPath' = None
    /\ uploadUrls' = EmptyUrls
    /\ stageLog' = <<>>
    /\ progressLog' = <<>>

NothingReused ==
  /\ (scriptData' # scriptData /\ scriptData' # NoScript) => ScriptReturnsNow
  /\ (videoPaths' # videoPaths /\ videoPaths' # <<>>) =>
       /\ call.kind \in {"ffmpeg-placeholder", "ffmpeg-convert"}
       /\ Outcomes(call) = {"ok"}
       /\ videoPaths' = Append(videoPaths, Target(call.kind))

ResultOfSuccessfulAttempt ==
  Completed =>
    /\ returnvalue = Result
    /\ returnvalue.scriptData # NoScript
    /\ returnvalue.finalVideoPath = OutputFile
    /\ \A stage \in {"script", "media", "assemble"} :
         \E i, j \in 1..Len(stageLog) :
           /\ i < j
           /\ stageLog[i] = <<"call", stage>>
           /\ stageLog[j] = <<"ret", stage>>
    /\ stageLog[1] = <<"call", "script">>

C36_AttemptsIndependent ==
  []ResultOfSuccessfulAttempt /\ [][AttemptStartsAfresh /\ NothingReused]_vars

C36_Witness ==
  /\ Completed
  /\ executions = 3
  /\ returnvalue.scriptData = validateScriptData(ParsedJson("valid"))

(***************************************************************************)
(* C37: a failure of the trim step or of the loop step itself (the tool    *)
(* fails after both durations were probed successfully) is fatal: the      *)
(* reconcile step rejects, mux is never started, and assembleVideo rejects *)
(* with that error instead of falling back to the unreconciled video.      *)
(***************************************************************************)
ReconcileError(kind) ==
  CASE kind = "ffmpeg-trim" -> "ffmpeg failed: trim"
    [] kind = "ffprobe-loop" -> "ffprobe failed: loop"
    [] kind = "ffmpeg-loop" -> "ffmpeg failed: loop"

TrimOrLoopFailureRejects ==
  (/\ call.kind \in {"ffmpeg-trim", "ffprobe-loop", "ffmpeg-loop"}
   /\ CallFailed
   /\ call' # call) =>
    /\ pc' = "catch"
    /\ call' = NoCall
    /\ thrown' = ReconcileError(call.kind)
    /\ stageLog' = Append(stageLog, <<"throw", "assemble">>)
    /\ loopedVideoPath' = None
    /\ finalVideoPath' = None

ReconcileErrors == {"ffmpeg failed: trim", "ffprobe failed: loop",
                    "ffmpeg failed: loop"}

MuxNeverStarted ==
  (qstate = "active" /\ thrown \in ReconcileErrors) =>
    /\ pc = "catch"
    /\ call.kind # "ffmpeg-mux"
    /\ loopedVideoPath = None
    /\ finalVideoPath = None

C37_TrimLoopFailureFatal ==
  []MuxNeverStarted /\ [][TrimOrLoopFailureRejects /\ RejectionPropagates]_vars

C37_Witness ==
  /\ qstate = "failed"
  /\ failedReason = "ffmpeg failed: loop"
  /\ audioDuration > videoDuration
  /\ videoDuration > 0

(***************************************************************************)
(* C38: with the Stable Horde provider the status of one cue's generation  *)
(* request is polled at most 40 times and the polling loop always ends:    *)
(* when a poll reports done the image is fetched and converted; when a     *)
(* poll reports faulted, when any request fails, or when 40 polls passed   *)
(* without done, the cue gets a placeholder clip; the loop never polls     *)
(* again after done or faulted was seen.  The loop ends because every      *)
(* request of the loop is made with a timeout, so each await settles, and  *)
(* each turn of the loop adds one to polls, which never exceeds            *)
(* maxAttempts.                                                            *)
(***************************************************************************)
HordePolling == {"horde_sleep", "horde_check_await"}
HordeFetching == {"horde_status_await", "horde_download_await"}

PollsBounded ==
  /\ polls \in 0..maxAttempts
  /\ pc \notin HordePolling => polls = 0
  /\ pc = "horde_check_await" => polls >= 1 /\ Outcomes(call) # {}
  /\ pc \in HordeFetching => Outcomes(call) # {}

PlaceholderForCue ==
  /\ call'.kind = "ffmpeg-placeholder"
  /\ cue' = cue
  /\ videoPaths' = videoPaths

HordeLoopStep ==
  /\ (pc = "horde_sleep" /\ pc' # pc) =>
       /\ polls < maxAttempts
       /\ polls' = polls + 1
       /\ call'.kind = "horde-check"
  /\ (pc = "horde_submit_await" /\ pc' # pc) =>
       IF Outcomes(call) = {"ok"} THEN pc' = "horde_sleep" /\ polls' = 0
       ELSE PlaceholderForCue
  /\ (pc = "horde_check_await" /\ pc' # pc) =>
       CASE Outcomes(call) = {"done"} ->
              call'.kind = "horde-status" /\ cue' = cue
         [] Outcomes(call) = {"pending"} /\ polls < maxAttempts ->
              pc' = "horde_sleep" /\ polls' = polls /\ cue' = cue
         [] OTHER -> PlaceholderForCue
  /\ (pc = "horde_status_await" /\ pc' # pc) =>
       IF Outcomes(call) = {"ok"}
       THEN call'.kind = "horde-download" /\ cue' = cue
       ELSE PlaceholderForCue
  /\ (pc = "horde_download_await" /\ pc' # pc) =>
       IF Outcomes(call) = {"ok"}
       THEN \/ call'.kind = "ffmpeg-convert" /\ cue' = cue
            \/ PlaceholderForCue
       ELSE PlaceholderForCue
  /\ (pc \in HordeFetching \cup {"convert_await", "placeholder_await"}) =>
       pc' \notin HordePolling

C38_HordePolling == []PollsBounded /\ [][HordeLoopStep]_vars

C38_Witness ==
  /\ cfg.imageProvider = "stablehorde"
  /\ pc = "horde_check_await"
  /\ polls = maxAttempts
  /\ Outcomes(call) = {"pending"}
  /\ cue = 2

====
